---- MODULE Spec2Model ----
(***************************************************************************)
(* A model of the bingo document collection (nokusukun/bingo): one typed   *)
(* collection over one bbolt bucket, its insert / update / delete paths    *)
(* with their hooks, the key lookup and the filter scan with skip / count  *)
(* pagination.                                                             *)
(*                                                                         *)
(* Keys are byte strings; the model writes them as the numbers 1..MaxKey   *)
(* in the byte order of the store, and 0 for the empty key.                *)
(***************************************************************************)
EXTENDS Integers, Sequences, FiniteSets

\* ------------------------------------------------------------------ bounds
MaxKey == 2
MaxBatch == 2
ScanKeys == 4
RekeyKeys == 3
DecodeKeys == 3

Keys == 1..MaxKey
NoKey == 0
\* TestDocument.Name carries validate:"required": "" is the invalid name.
ValidNames == {"a", "b"}
Names == ValidNames \cup {""}
Docs == [ID : Keys \cup {NoKey}, Name : Names]
ValidDocs == {d \in Docs : d.Name \in ValidNames}
NoDoc == [ID |-> NoKey, Name |-> ""]

VARIABLES
    db,     \* the committed store: [exists |-> the bucket exists, recs |-> key -> bytes,
            \*   registered |-> the metadata flag "collection:<name>",
            \*   closed |-> Driver.Close has closed the store]
    last    \* the last call: its receiver, arguments, results and event trace

vars == <<db, last>>

\* ------------------------------------------------------------- the codec
\* Marshaller / Unmarshaller: the stored bytes are the pair of the _id and
\* name fields; decoding rebuilds the document from the pair.
Marshal(doc) == <<doc.ID, doc.Name>>
Unmarshal(v) == [ID |-> v[1], Name |-> v[2]]
\* Bytes that Unmarshaller.Unmarshal rejects for the document type.
BadValue == <<"bad">>
Decodable(v) == v # BadValue
\* Document.Key
Key(doc) == doc.ID

\* ------------------------------------------------------------ the bucket
EmptyRecs == [k \in {} |-> <<>>]
\* A put that does not replace the value of a key already in the bucket.
BucketPut_KeepExisting(recs, k, v) ==
    IF k = NoKey THEN [recs |-> recs, err |-> "KeyRequired"]
    ELSE [recs |-> [x \in (DOMAIN recs) \cup {k} |->
                      IF x \in DOMAIN recs THEN recs[x] ELSE v],
          err |-> "nil"]

\* bbolt Bucket.Put: the empty key is refused (ErrKeyRequired).
BucketPut(recs, k, v) ==
    IF k = NoKey THEN [recs |-> recs, err |-> "KeyRequired"]
    ELSE [recs |-> [x \in (DOMAIN recs) \cup {k} |-> IF x = k THEN v ELSE recs[x]],
          err |-> "nil"]
\* A delete that removes nothing.
BucketDelete_Keep(recs, k) == recs

\* bbolt Bucket.Delete: deleting an absent key is no error.
BucketDelete(recs, k) == [x \in (DOMAIN recs) \ {k} |-> recs[x]]
\* bbolt Cursor.Last / Cursor.Prev: NoKey stands for the nil key that ends
\* the loop of ReverseIter.
SetMax(S) == CHOOSE x \in S : \A y \in S : y <= x
CursorLast(recs) == IF DOMAIN recs = {} THEN NoKey ELSE SetMax(DOMAIN recs)
\* A cursor that loses its place when the record under it was deleted: it
\* steps over the next record.
CursorPrev_SkipAfterDelete(recs, k) ==
    LET below == {x \in DOMAIN recs : x < k}
        first == IF below = {} THEN NoKey ELSE SetMax(below)
        rest == {x \in below : x < first}
    IN IF k \in DOMAIN recs \/ first = NoKey THEN first
       ELSE IF rest = {} THEN NoKey ELSE SetMax(rest)

CursorPrev(recs, k) ==
    LET below == {x \in DOMAIN recs : x < k}
    IN IF below = {} THEN NoKey ELSE SetMax(below)

\* -------------------------------------------------------------- the hooks
\* A hook slot of the Collection holds nil ("none") or a function. The
\* functions explored: "failB" returns an error for a document named "b"
\* and nil for any other, "mod" renames the document to "b" and returns nil.
BeforeModes == {"none", "failB", "mod"}
AfterModes == {"none", "failB"}
Collections ==
    [beforeInsert : BeforeModes, afterInsert : AfterModes,
     beforeUpdate : BeforeModes, afterUpdate : AfterModes,
     beforeDelete : BeforeModes, afterDelete : AfterModes]
NoHooks ==
    [beforeInsert |-> "none", afterInsert |-> "none",
     beforeUpdate |-> "none", afterUpdate |-> "none",
     beforeDelete |-> "none", afterDelete |-> "none"]
\* BeforeInsert(f), AfterInsert(f), ...: the fluent setters.
InsertReceivers ==
    {[NoHooks EXCEPT !.beforeInsert = b, !.afterInsert = a] :
        b \in BeforeModes, a \in AfterModes}
UpdateReceivers ==
    {[NoHooks EXCEPT !.beforeUpdate = b, !.afterUpdate = a] :
        b \in BeforeModes, a \in AfterModes}
DeleteReceivers ==
    {[NoHooks EXCEPT !.beforeDelete = b, !.afterDelete = a] :
        b \in BeforeModes, a \in AfterModes}

\* A hook call whose error is dropped.
RunHook_DropError(mode, ev, i, doc) ==
    IF mode = "none" THEN [doc |-> doc, err |-> "nil", trace |-> <<>>]
    ELSE [doc |-> IF mode = "mod" THEN [doc EXCEPT !.Name = "b"] ELSE doc,
          err |-> "nil",
          trace |-> <<[ev |-> ev, i |-> i, ok |-> ~(mode = "failB" /\ doc.Name = "b")]>>]

\* One call of a hook slot on a document (the `if c.hook != nil` guard and
\* the call): the document as the hook left it, the error, and the event.
RunHook(mode, ev, i, doc) ==
    IF mode = "none" THEN [doc |-> doc, err |-> "nil", trace |-> <<>>]
    ELSE LET failed == (mode = "failB" /\ doc.Name = "b")
             out == IF mode = "mod" THEN [doc EXCEPT !.Name = "b"] ELSE doc
         IN [doc |-> out,
             err |-> IF failed THEN "HookError" ELSE "nil",
             trace |-> <<[ev |-> ev, i |-> i, ok |-> ~failed]>>]
WriteEvent(i) == [ev |-> "write", i |-> i, ok |-> TRUE]

\* ---------------------------------------------------------- key lookup
\* queryKeys: a read transaction on the committed store; a missing bucket,
\* a missing key and an undecodable value all leave the key out.
\* A key lookup that gives up at the first key it cannot return.
RECURSIVE queryKeysFrom_StopAtMissing(_, _)
queryKeysFrom_StopAtMissing(keys, i) ==
    IF i > Len(keys) THEN <<>>
    ELSE IF db.exists /\ keys[i] \in DOMAIN db.recs /\ Decodable(db.recs[keys[i]])
         THEN <<Unmarshal(db.recs[keys[i]])>> \o queryKeysFrom_StopAtMissing(keys, i + 1)
         ELSE <<>>

RECURSIVE queryKeysFrom(_, _)
queryKeysFrom(keys, i) ==
    IF i > Len(keys) THEN <<>>
    ELSE IF db.exists /\ keys[i] \in DOMAIN db.recs /\ Decodable(db.recs[keys[i]])
         THEN <<Unmarshal(db.recs[keys[i]])>> \o queryKeysFrom(keys, i + 1)
         ELSE queryKeysFrom(keys, i + 1)
\* The error of db.View on a closed store is discarded.
queryKeys(keys) == IF db.closed THEN <<>> ELSE queryKeysFrom(keys, 1)

\* A lookup that never finds the key.
FindByBytesKey_NotFound(id) == [doc |-> NoDoc, err |-> "ErrDocumentNotFound"]

FindByBytesKey(id) ==
    LET r == queryKeys(<<id>>)
    IN IF Len(r) = 0 THEN [doc |-> NoDoc, err |-> "ErrDocumentNotFound"]
       ELSE [doc |-> r[1], err |-> "nil"]

\* ------------------------------------------------------------ the insert
InsertOptions == [IgnoreErrors : BOOLEAN, Upsert : BOOLEAN]

\* A getKey that does not write the generated key back to the document.
getKey_NoWriteBack(doc, gen) ==
    IF Key(doc) = NoKey THEN [id |-> gen, doc |-> doc]
    ELSE [id |-> Key(doc), doc |-> doc]

\* getKey: the document's key, or a generated one written back to its ID.
getKey(doc, gen) ==
    IF Key(doc) = NoKey THEN [id |-> gen, doc |-> [doc EXCEPT !.ID = gen]]
    ELSE [id |-> Key(doc), doc |-> doc]

\* Driver.val.Struct on a TestDocument
Validate(doc) == IF doc.Name = "" THEN "ValidationFailed" ELSE "nil"

\* An insert without the existence check.
insertWithTx_NoExistenceCheck(c, recs, doc, opt, gen, i) ==
    LET fail(e, t, r) == [recs |-> r, id |-> NoKey, err |-> e, trace |-> t]
    IN
    IF Validate(doc) # "nil" THEN fail(Validate(doc), <<>>, recs)
    ELSE LET b == RunHook(c.beforeInsert, "before", i, doc)
         IN IF b.err # "nil" THEN fail(b.err, b.trace, recs)
    ELSE LET k == getKey(b.doc, gen)
             p == BucketPut(recs, k.id, Marshal(k.doc))
         IN IF p.err # "nil" THEN fail(p.err, b.trace, recs)
    ELSE LET t == b.trace \o <<WriteEvent(i)>>
             a == RunHook(c.afterInsert, "after", i, k.doc)
         IN IF a.err # "nil" THEN fail(a.err, t \o a.trace, p.recs)
            ELSE [recs |-> p.recs, id |-> k.id, err |-> "nil", trace |-> t \o a.trace]

\* An insert that validates the document after beforeInsert has run.
insertWithTx_ValidateAfterHook(c, recs, doc, opt, gen, i) ==
    LET fail(e, t, r) == [recs |-> r, id |-> NoKey, err |-> e, trace |-> t]
    IN
    IF ~opt.Upsert /\ FindByBytesKey(Key(doc)).err = "nil"
    THEN fail("ErrDocumentExists", <<>>, recs)
    ELSE LET b == RunHook(c.beforeInsert, "before", i, doc)
         IN IF b.err # "nil" THEN fail(b.err, b.trace, recs)
    ELSE IF Validate(b.doc) # "nil" THEN fail(Validate(b.doc), b.trace, recs)
    ELSE LET k == getKey(b.doc, gen)
             p == BucketPut(recs, k.id, Marshal(k.doc))
         IN IF p.err # "nil" THEN fail(p.err, b.trace, recs)
    ELSE LET t == b.trace \o <<WriteEvent(i)>>
             a == RunHook(c.afterInsert, "after", i, k.doc)
         IN IF a.err # "nil" THEN fail(a.err, t \o a.trace, p.recs)
            ELSE [recs |-> p.recs, id |-> k.id, err |-> "nil", trace |-> t \o a.trace]

insertWithTx(c, recs, doc, opt, gen, i) ==
    LET fail(e, t, r) == [recs |-> r, id |-> NoKey, err |-> e, trace |-> t]
    IN
    IF ~opt.Upsert /\ FindByBytesKey(Key(doc)).err = "nil"
    THEN fail("ErrDocumentExists", <<>>, recs)
    ELSE IF Validate(doc) # "nil" THEN fail(Validate(doc), <<>>, recs)
    ELSE LET b == RunHook(c.beforeInsert, "before", i, doc)
         IN IF b.err # "nil" THEN fail(b.err, b.trace, recs)
    ELSE LET k == getKey(b.doc, gen)
             p == BucketPut(recs, k.id, Marshal(k.doc))
         IN IF p.err # "nil" THEN fail(p.err, b.trace, recs)
    ELSE LET t == b.trace \o <<WriteEvent(i)>>
             a == RunHook(c.afterInsert, "after", i, k.doc)
         IN IF a.err # "nil" THEN fail(a.err, t \o a.trace, p.recs)
            ELSE [recs |-> p.recs, id |-> k.id, err |-> "nil", trace |-> t \o a.trace]

\* inserts: the loop over the batch inside one write transaction. acc is
\* the transaction's bucket, the results so far and the trace.
RECURSIVE insertsFrom(_, _, _, _, _, _)
insertsFrom(c, docs, opt, gens, i, acc) ==
    IF i > Len(docs) THEN acc
    ELSE LET r == insertWithTx(c, acc.recs, docs[i], opt, gens[i], i)
         IN IF ~opt.IgnoreErrors /\ r.err # "nil"
            THEN [acc EXCEPT !.err = r.err, !.trace = acc.trace \o r.trace,
                             !.errs = Append(acc.errs, r.err)]
            ELSE insertsFrom(c, docs, opt, gens, i + 1,
                    [recs |-> r.recs, results |-> Append(acc.results, r.id),
                     err |-> "nil", trace |-> acc.trace \o r.trace,
                     errs |-> Append(acc.errs, r.err)])

\* A batch insert whose transaction commits whatever its function returns.
inserts_CommitPartial(c, docs, opt, gens) ==
    LET r == insertsFrom(c, docs, opt, gens, 1,
                [recs |-> db.recs, results |-> <<>>, err |-> "nil",
                 trace |-> <<>>, errs |-> <<>>])
    IN [db |-> [db EXCEPT !.exists = TRUE, !.recs = r.recs],
        results |-> r.results, err |-> r.err, trace |-> r.trace, errs |-> r.errs]

\* The write transaction commits when its function returns nil and is
\* rolled back otherwise; CreateBucketIfNotExists is part of it.
inserts(c, docs, opt, gens) ==
    IF db.closed
    THEN [db |-> db, results |-> <<>>, err |-> "ErrDatabaseNotOpen",
          trace |-> <<>>, errs |-> <<>>]
    ELSE
    LET r == insertsFrom(c, docs, opt, gens, 1,
                [recs |-> db.recs, results |-> <<>>, err |-> "nil",
                 trace |-> <<>>, errs |-> <<>>])
    IN [db |-> IF r.err = "nil" THEN [db EXCEPT !.exists = TRUE, !.recs = r.recs] ELSE db,
        results |-> r.results, err |-> r.err, trace |-> r.trace, errs |-> r.errs]

\* The ids of the default generator (a snowflake node) are new: none is a
\* key of the bucket, of the batch, or generated twice.
Batches == UNION {[1..n -> Docs] : n \in 1..MaxBatch}
GensOf(docs) ==
    {g \in [1..Len(docs) -> Keys \cup {NoKey}] :
        /\ \A i \in 1..Len(docs) :
              IF docs[i].ID # NoKey THEN g[i] = NoKey
              ELSE /\ g[i] \in Keys \ DOMAIN db.recs
                   /\ \A j \in 1..Len(docs) : docs[j].ID # g[i]
        /\ \A i, j \in 1..Len(docs) : (i # j /\ g[i] # NoKey) => g[i] # g[j]}

\* The ids of a caller's generator (Collection.OnNewId): any key, stored or
\* not, for each document that comes without one.
NewIdsOf(docs) ==
    {g \in [1..Len(docs) -> Keys \cup {NoKey}] :
        \A i \in 1..Len(docs) : (g[i] = NoKey) <=> (docs[i].ID # NoKey)}

\* ------------------------------------------------------- the filter scan
\* The predicates explored for Filter, deleteFunc and updateFunc.
Filters ==
    {[kind |-> "all", name |-> "", id |-> NoKey], [kind |-> "none", name |-> "", id |-> NoKey]}
    \cup {[kind |-> "name", name |-> n, id |-> NoKey] : n \in ValidNames}
    \cup {[kind |-> "id", name |-> "", id |-> k] : k \in 1..ScanKeys}
Matches(f, doc) ==
    CASE f.kind = "all" -> TRUE
      [] f.kind = "none" -> FALSE
      [] f.kind = "name" -> doc.Name = f.name
      [] f.kind = "id" -> doc.ID = f.id

\* A scan that skips the first q.skip matches instead of the first q.skip
\* records visited.
scanStep_SkipMatches(q, recs, k, acc) ==
    LET n == acc.last + 1
        document == Unmarshal(recs[k])
    IN IF ~Matches(q.filter, document) THEN [acc EXCEPT !.last = n]
       ELSE IF acc.skipped < q.skip
            THEN [acc EXCEPT !.last = n, !.skipped = acc.skipped + 1]
            ELSE [acc EXCEPT !.last = n,
                             !.docs = Append(acc.docs, document),
                             !.keys = Append(acc.keys, k),
                             !.found = acc.found + 1,
                             !.stop = (q.count > 0 /\ acc.found + 1 >= q.count)]

\* A scan that steps over a record it cannot decode.
scanStep_SkipUndecodable(q, recs, k, acc) ==
    LET n == acc.last + 1
        document == Unmarshal(recs[k])
    IN IF n <= q.skip \/ ~Decodable(recs[k]) THEN [acc EXCEPT !.last = n]
       ELSE IF Matches(q.filter, document)
            THEN [acc EXCEPT !.last = n,
                             !.docs = Append(acc.docs, document),
                             !.keys = Append(acc.keys, k),
                             !.found = acc.found + 1,
                             !.stop = (q.count > 0 /\ acc.found + 1 >= q.count)]
            ELSE [acc EXCEPT !.last = n]

\* A callback that decodes the record before it tests the skip.
scanStep_DecodeBeforeSkip(q, recs, k, acc) ==
    LET n == acc.last + 1
        document == Unmarshal(recs[k])
    IN IF ~Decodable(recs[k])
       THEN [acc EXCEPT !.last = n, !.err = "DecodeError", !.stop = TRUE]
       ELSE IF n <= q.skip THEN [acc EXCEPT !.last = n]
       ELSE IF Matches(q.filter, document)
            THEN [acc EXCEPT !.last = n,
                             !.docs = Append(acc.docs, document),
                             !.keys = Append(acc.keys, k),
                             !.found = acc.found + 1,
                             !.stop = (q.count > 0 /\ acc.found + 1 >= q.count)]
            ELSE [acc EXCEPT !.last = n]

\* The callback queryFind hands to ReverseIter, applied to the record at k:
\* acc.stop is set when it returns stoperr or an error.
scanStep(q, recs, k, acc) ==
    LET n == acc.last + 1
        document == Unmarshal(recs[k])
    IN IF n <= q.skip THEN [acc EXCEPT !.last = n]
       ELSE IF ~Decodable(recs[k])
            THEN [acc EXCEPT !.last = n, !.err = "DecodeError", !.stop = TRUE]
       ELSE IF Matches(q.filter, document)
            THEN [acc EXCEPT !.last = n,
                             !.docs = Append(acc.docs, document),
                             !.keys = Append(acc.keys, k),
                             !.found = acc.found + 1,
                             !.stop = (q.count > 0 /\ acc.found + 1 >= q.count)]
            ELSE [acc EXCEPT !.last = n]

\* A traversal that does not stop at stoperr.
RECURSIVE scanFrom_NoStop(_, _, _, _)
scanFrom_NoStop(q, recs, k, acc) ==
    IF k = NoKey THEN acc
    ELSE scanFrom_NoStop(q, recs, CursorPrev(recs, k), scanStep(q, recs, k, acc))

\* WrappedBucket.ReverseIter under queryFind: from the last key down, until
\* the keys end or the callback returns stoperr.
RECURSIVE scanFrom(_, _, _, _)
scanFrom(q, recs, k, acc) ==
    IF k = NoKey \/ acc.stop THEN acc
    ELSE scanFrom(q, recs, CursorPrev(recs, k), scanStep(q, recs, k, acc))

\* A scan whose cursor is the number of documents skipped and matched.
queryFind_CountMatched(q) ==
    IF ~db.exists
    THEN [docs |-> <<>>, keys |-> <<>>, last |-> 0, err |-> "BucketNotFound"]
    ELSE LET r == scanFrom(q, db.recs, CursorLast(db.recs),
                      [docs |-> <<>>, keys |-> <<>>, last |-> 0, found |-> 0,
                       stop |-> FALSE, skipped |-> 0, err |-> "nil"])
         IN [docs |-> r.docs, keys |-> r.keys,
             last |-> IF r.last < q.skip THEN r.last ELSE q.skip + r.found,
             err |-> r.err]

\* The function queryFind runs inside db.View, on the store v that the
\* read transaction sees.
queryFindIn(v, q) ==
    IF ~v.exists
    THEN [docs |-> <<>>, keys |-> <<>>, last |-> 0, err |-> "BucketNotFound"]
    ELSE LET r == scanFrom(q, v.recs, CursorLast(v.recs),
                      [docs |-> <<>>, keys |-> <<>>, last |-> 0, found |-> 0,
                       stop |-> FALSE, skipped |-> 0, err |-> "nil"])
         \* stoperr is not reported: err is nil when the count limit stopped the scan
         IN [docs |-> r.docs, keys |-> r.keys, last |-> r.last, err |-> r.err]

queryFind(q) ==
    IF db.closed
    THEN [docs |-> <<>>, keys |-> <<>>, last |-> 0, err |-> "ErrDatabaseNotOpen"]
    ELSE queryFindIn(db, q)

Queries == [filter : Filters, skip : 0..(ScanKeys + 1), count : (0 - 1)..ScanKeys]

FindWithKeys(q) ==
    LET r == queryFind(q)
    IN IF r.err # "nil" THEN [docs |-> <<>>, keys |-> <<>>, err |-> r.err]
       ELSE IF Len(r.docs) = 0
            THEN [docs |-> <<>>, keys |-> <<>>, err |-> "ErrDocumentNotFound"]
            ELSE [docs |-> r.docs, keys |-> r.keys, err |-> "nil"]

FindOneWithKey(filter) ==
    LET r == queryFind([filter |-> filter, skip |-> 0, count |-> 0])
    IN IF r.err # "nil" THEN [doc |-> NoDoc, key |-> NoKey, err |-> r.err]
       ELSE IF Len(r.docs) = 0
            THEN [doc |-> NoDoc, key |-> NoKey, err |-> "ErrDocumentNotFound"]
            ELSE [doc |-> r.docs[1], key |-> r.keys[1], err |-> "nil"]

\* IsErrDocumentNotFound: the error text contains "document not found".
IsErrDocumentNotFound(err) == err = "ErrDocumentNotFound"

\* ------------------------------------------------- update and delete
\* An UpdateOne that stores the document as the caller passed it.
UpdateOneOf_PersistOriginal(c, doc) ==
    LET b == RunHook(c.beforeUpdate, "before", 1, doc)
        p == BucketPut(db.recs, Key(doc), Marshal(doc))
        a == RunHook(c.afterUpdate, "after", 1, b.doc)
    IN IF b.err # "nil" THEN [db |-> db, err |-> b.err, trace |-> b.trace]
       ELSE IF db.closed THEN [db |-> db, err |-> "ErrDatabaseNotOpen", trace |-> b.trace]
       ELSE IF ~db.exists THEN [db |-> db, err |-> "BucketNotFound", trace |-> b.trace]
       ELSE IF p.err # "nil" THEN [db |-> db, err |-> p.err, trace |-> b.trace]
       ELSE [db |-> [db EXCEPT !.recs = p.recs], err |-> a.err,
             trace |-> b.trace \o <<WriteEvent(1)>> \o a.trace]

\* An UpdateOne that refuses a key that is not stored.
UpdateOneOf_RequireExisting(c, doc) ==
    LET b == RunHook(c.beforeUpdate, "before", 1, doc)
        p == BucketPut(db.recs, Key(b.doc), Marshal(b.doc))
        a == RunHook(c.afterUpdate, "after", 1, b.doc)
    IN IF b.err # "nil" THEN [db |-> db, err |-> b.err, trace |-> b.trace]
       ELSE IF db.closed THEN [db |-> db, err |-> "ErrDatabaseNotOpen", trace |-> b.trace]
       ELSE IF ~db.exists THEN [db |-> db, err |-> "BucketNotFound", trace |-> b.trace]
       ELSE IF Key(b.doc) \notin DOMAIN db.recs
            THEN [db |-> db, err |-> "ErrDocumentNotFound", trace |-> b.trace]
       ELSE IF p.err # "nil" THEN [db |-> db, err |-> p.err, trace |-> b.trace]
       ELSE [db |-> [db EXCEPT !.recs = p.recs], err |-> a.err,
             trace |-> b.trace \o <<WriteEvent(1)>> \o a.trace]

\* UpdateOne: beforeUpdate, encode, Put under doc.Key() in a write
\* transaction, then afterUpdate once the transaction has committed.
UpdateOneOf(c, doc) ==
    LET b == RunHook(c.beforeUpdate, "before", 1, doc)
        p == BucketPut(db.recs, Key(b.doc), Marshal(b.doc))
        a == RunHook(c.afterUpdate, "after", 1, b.doc)
    IN IF b.err # "nil" THEN [db |-> db, err |-> b.err, trace |-> b.trace]
       ELSE IF db.closed THEN [db |-> db, err |-> "ErrDatabaseNotOpen", trace |-> b.trace]
       ELSE IF ~db.exists THEN [db |-> db, err |-> "BucketNotFound", trace |-> b.trace]
       ELSE IF p.err # "nil" THEN [db |-> db, err |-> p.err, trace |-> b.trace]
       ELSE [db |-> [db EXCEPT !.recs = p.recs], err |-> a.err,
             trace |-> b.trace \o <<WriteEvent(1)>> \o a.trace]

\* A DeleteOne that creates the bucket when there is none.
DeleteOneOf_CreateBucket(c, doc) ==
    LET b == RunHook(c.beforeDelete, "before", 1, doc)
        a == RunHook(c.afterDelete, "after", 1, b.doc)
    IN IF b.err # "nil" THEN [db |-> db, err |-> b.err, trace |-> b.trace]
       ELSE IF db.closed THEN [db |-> db, err |-> "ErrDatabaseNotOpen", trace |-> b.trace]
       ELSE [db |-> [db EXCEPT !.exists = TRUE,
                               !.recs = BucketDelete(db.recs, Key(b.doc))],
             err |-> a.err,
             trace |-> b.trace \o <<WriteEvent(1)>> \o a.trace]

\* DeleteOne: beforeDelete, Delete of doc.Key() in a write transaction,
\* then afterDelete once the transaction has committed.
DeleteOneOf(c, doc) ==
    LET b == RunHook(c.beforeDelete, "before", 1, doc)
        a == RunHook(c.afterDelete, "after", 1, b.doc)
    IN IF b.err # "nil" THEN [db |-> db, err |-> b.err, trace |-> b.trace]
       ELSE IF db.closed THEN [db |-> db, err |-> "ErrDatabaseNotOpen", trace |-> b.trace]
       ELSE IF ~db.exists THEN [db |-> db, err |-> "BucketNotFound", trace |-> b.trace]
       ELSE [db |-> [db EXCEPT !.recs = BucketDelete(db.recs, Key(b.doc))], err |-> a.err,
             trace |-> b.trace \o <<WriteEvent(1)>> \o a.trace]

\* The callback DeleteIter hands to ReverseIter, applied to the record at k
\* as the i-th record visited. acc.recs is the transaction's bucket.
deleteIterStep(c, f, k, i, acc) ==
    LET document == Unmarshal(acc.recs[k])
        seen == [acc EXCEPT !.visited = Append(acc.visited, k)]
        b == RunHook(c.beforeDelete, "before", i, document)
        a == RunHook(c.afterDelete, "after", i, b.doc)
    IN IF ~Matches(f, document) THEN seen
       ELSE IF b.err # "nil"
            THEN [seen EXCEPT !.err = b.err, !.trace = acc.trace \o b.trace]
       ELSE [seen EXCEPT !.recs = BucketDelete(acc.recs, Key(b.doc)),
                         !.err = a.err,
                         !.trace = acc.trace \o b.trace \o <<WriteEvent(i)>> \o a.trace]

\* WrappedBucket.ReverseIter under DeleteIter: the cursor moves on the
\* bucket of the write transaction, which the callback is changing.
RECURSIVE deleteIterFrom(_, _, _, _, _)
deleteIterFrom(c, f, k, i, acc) ==
    IF k = NoKey \/ acc.err # "nil" THEN acc
    ELSE LET r == deleteIterStep(c, f, k, i, acc)
         IN deleteIterFrom(c, f, CursorPrev(r.recs, k), i + 1, r)

IterStart == [recs |-> db.recs, err |-> "nil", trace |-> <<>>, visited |-> <<>>]

DeleteIterOf(c, f) ==
    IF db.closed
    THEN [db |-> db, err |-> "ErrDatabaseNotOpen", trace |-> <<>>, visited |-> <<>>]
    ELSE IF ~db.exists
    THEN [db |-> db, err |-> "BucketNotFound", trace |-> <<>>, visited |-> <<>>]
    ELSE LET r == deleteIterFrom(c, f, CursorLast(db.recs), 1, IterStart)
         IN [db |-> IF r.err = "nil" THEN [db EXCEPT !.recs = r.recs] ELSE db,
             err |-> r.err, trace |-> r.trace, visited |-> r.visited]

\* The update functions explored: rename to u.name, in place, the documents
\* that satisfy u.filter and return them; return nil for the others.
UpdateFuncs == [filter : Filters, name : ValidNames]

updateIterStep(c, u, k, i, acc) ==
    LET document == Unmarshal(acc.recs[k])
        seen == [acc EXCEPT !.visited = Append(acc.visited, k)]
        newDocument == [document EXCEPT !.Name = u.name]
        b == RunHook(c.beforeUpdate, "before", i, newDocument)
        p == BucketPut(acc.recs, Key(b.doc), Marshal(b.doc))
        a == RunHook(c.afterUpdate, "after", i, b.doc)
    IN IF ~Matches(u.filter, document) THEN seen
       ELSE IF b.err # "nil"
            THEN [seen EXCEPT !.err = b.err, !.trace = acc.trace \o b.trace]
       ELSE IF p.err # "nil"
            THEN [seen EXCEPT !.err = p.err, !.trace = acc.trace \o b.trace]
       ELSE [seen EXCEPT !.recs = p.recs, !.err = a.err,
                         !.trace = acc.trace \o b.trace \o <<WriteEvent(i)>> \o a.trace]

RECURSIVE updateIterFrom(_, _, _, _, _)
updateIterFrom(c, u, k, i, acc) ==
    IF k = NoKey \/ acc.err # "nil" THEN acc
    ELSE LET r == updateIterStep(c, u, k, i, acc)
         IN updateIterFrom(c, u, CursorPrev(r.recs, k), i + 1, r)

UpdateIterOf(c, u) ==
    IF db.closed
    THEN [db |-> db, err |-> "ErrDatabaseNotOpen", trace |-> <<>>, visited |-> <<>>]
    ELSE IF ~db.exists
    THEN [db |-> db, err |-> "BucketNotFound", trace |-> <<>>, visited |-> <<>>]
    ELSE LET r == updateIterFrom(c, u, CursorLast(db.recs), 1, IterStart)
         IN [db |-> IF r.err = "nil" THEN [db EXCEPT !.recs = r.recs] ELSE db,
             err |-> r.err, trace |-> r.trace, visited |-> r.visited]

\* The update functions that also set the identity field: for a document
\* that satisfies u.filter, either change the decoded document in place
\* (ID := u.id, Name := u.name) and return it, or leave it alone and return
\* a copy with these fields (u.copy); return nil for the others.
RekeyFuncs == [filter : Filters, name : ValidNames, id : 1..RekeyKeys, copy : BOOLEAN]
RekeyReceivers == {[NoHooks EXCEPT !.beforeUpdate = b] : b \in BeforeModes}
\* What the cursor of ReverseIter reads once the callback has written a key
\* other than the one under it: the pages of the bucket as they were when
\* the traversal started ("snapshot"), or the bucket of the transaction ("tx").
CursorViews == {"snapshot", "tx"}

\* The callback of UpdateIter for such a function: the record is put under
\* document.Key(), the key of the decoded document after updateFunc ran.
rekeyIterStep(c, u, view, old, k, i, acc) ==
    LET v == IF view = "snapshot" THEN old[k] ELSE acc.recs[k]
        document == Unmarshal(v)
        seen == [acc EXCEPT !.visited = Append(acc.visited, k)]
        newDocument == [ID |-> u.id, Name |-> u.name]
        b == RunHook(c.beforeUpdate, "before", i, newDocument)
        putKey == IF u.copy THEN Key(document) ELSE Key(b.doc)
        p == BucketPut(acc.recs, putKey, Marshal(b.doc))
        a == RunHook(c.afterUpdate, "after", i, b.doc)
    IN IF ~Matches(u.filter, document) THEN seen
       ELSE IF b.err # "nil"
            THEN [seen EXCEPT !.err = b.err, !.trace = acc.trace \o b.trace]
       ELSE IF p.err # "nil"
            THEN [seen EXCEPT !.err = p.err, !.trace = acc.trace \o b.trace]
       ELSE [seen EXCEPT !.recs = p.recs, !.err = a.err,
                         !.trace = acc.trace \o b.trace \o <<WriteEvent(i)>> \o a.trace]

RECURSIVE rekeyIterFrom(_, _, _, _, _, _, _)
rekeyIterFrom(c, u, view, old, k, i, acc) ==
    IF k = NoKey \/ acc.err # "nil" THEN acc
    ELSE LET r == rekeyIterStep(c, u, view, old, k, i, acc)
             n == IF view = "snapshot" THEN CursorPrev(old, k) ELSE CursorPrev(r.recs, k)
         IN rekeyIterFrom(c, u, view, old, n, i + 1, r)

UpdateIterRekeyOf(c, u, view) ==
    IF db.closed
    THEN [db |-> db, err |-> "ErrDatabaseNotOpen", trace |-> <<>>, visited |-> <<>>]
    ELSE IF ~db.exists
    THEN [db |-> db, err |-> "BucketNotFound", trace |-> <<>>, visited |-> <<>>]
    ELSE LET r == rekeyIterFrom(c, u, view, db.recs, CursorLast(db.recs), 1, IterStart)
         IN [db |-> IF r.err = "nil" THEN [db EXCEPT !.recs = r.recs] ELSE db,
             err |-> r.err, trace |-> r.trace, visited |-> r.visited]

\* ------------------------------------------------------ the query result
\* QueryResult.Delete: one write transaction over the items, in order.
RECURSIVE qrDeleteFrom(_, _, _, _)
qrDeleteFrom(c, items, i, acc) ==
    IF i > Len(items) \/ acc.err # "nil" THEN acc
    ELSE LET b == RunHook(c.beforeDelete, "before", i, items[i])
             a == RunHook(c.afterDelete, "after", i, b.doc)
         IN IF b.err # "nil"
            THEN [acc EXCEPT !.err = b.err, !.trace = acc.trace \o b.trace]
            ELSE qrDeleteFrom(c, items, i + 1,
                    [acc EXCEPT !.recs = BucketDelete(acc.recs, Key(b.doc)),
                                !.err = a.err,
                                !.trace = acc.trace \o b.trace \o <<WriteEvent(i)>> \o a.trace])

\* QueryResult.Update: one write transaction over the items, in order.
RECURSIVE qrUpdateFrom(_, _, _, _)
qrUpdateFrom(c, items, i, acc) ==
    IF i > Len(items) \/ acc.err # "nil" THEN acc
    ELSE LET b == RunHook(c.beforeUpdate, "before", i, items[i])
             p == BucketPut(acc.recs, Key(b.doc), Marshal(b.doc))
             a == RunHook(c.afterUpdate, "after", i, b.doc)
         IN IF b.err # "nil"
            THEN [acc EXCEPT !.err = b.err, !.trace = acc.trace \o b.trace]
            ELSE IF p.err # "nil"
            THEN [acc EXCEPT !.err = p.err, !.trace = acc.trace \o b.trace]
            ELSE qrUpdateFrom(c, items, i + 1,
                    [acc EXCEPT !.recs = p.recs, !.err = a.err,
                                !.trace = acc.trace \o b.trace \o <<WriteEvent(i)>> \o a.trace])

QRDeleteOf(c, items) ==
    IF db.closed THEN [db |-> db, err |-> "ErrDatabaseNotOpen", trace |-> <<>>]
    ELSE IF ~db.exists THEN [db |-> db, err |-> "BucketNotFound", trace |-> <<>>]
    ELSE LET r == qrDeleteFrom(c, items, 1, IterStart)
         IN [db |-> IF r.err = "nil" THEN [db EXCEPT !.recs = r.recs] ELSE db,
             err |-> r.err, trace |-> r.trace]

\* A QueryResult.Update whose transaction commits whatever its function returns.
QRUpdateOf_CommitPartial(c, items) ==
    IF ~db.exists THEN [db |-> db, err |-> "BucketNotFound", trace |-> <<>>]
    ELSE LET r == qrUpdateFrom(c, items, 1, IterStart)
         IN [db |-> [db EXCEPT !.recs = r.recs], err |-> r.err, trace |-> r.trace]

QRUpdateOf(c, items) ==
    IF db.closed THEN [db |-> db, err |-> "ErrDatabaseNotOpen", trace |-> <<>>]
    ELSE IF ~db.exists THEN [db |-> db, err |-> "BucketNotFound", trace |-> <<>>]
    ELSE LET r == qrUpdateFrom(c, items, 1, IterStart)
         IN [db |-> IF r.err = "nil" THEN [db EXCEPT !.recs = r.recs] ELSE db,
             err |-> r.err, trace |-> r.trace]

\* The Items of the QueryResult a caller updates or deletes: documents a
\* query returned, as the caller left them.
ItemLists == UNION {[1..n -> {d \in ValidDocs : d.ID # NoKey}] : n \in 1..MaxBatch}

\* ----------------------------------------------------------- the query
\* Query.Filter left nil.
NilFilter == [kind |-> "nil", name |-> "", id |-> NoKey]
\* The key lists of a query: up to MaxBatch keys, present in the bucket or not.
KeyLists == UNION {[1..n -> 1..DecodeKeys] : n \in 0..MaxBatch}
\* Query.Keys (nil when hasKeys is false) and Query.KeysStr as the caller
\* sets them: one of the two, or both with at most one key each.
KeyArgs ==
    {<<TRUE, ks, <<>>>> : ks \in KeyLists}
    \cup {<<FALSE, <<>>, ss>> : ss \in KeyLists}
    \cup {<<TRUE, ks, ss>> : ks \in {l \in KeyLists : Len(l) <= 1},
                             ss \in {l \in KeyLists : Len(l) <= 1}}
QueryArgs ==
    {[hasKeys |-> a[1], Keys |-> a[2], KeysStr |-> a[3], Filter |-> f, Skip |-> sk, Count |-> n] :
        a \in KeyArgs,
        f \in {NilFilter, [kind |-> "all", name |-> "", id |-> NoKey],
               [kind |-> "name", name |-> "a", id |-> NoKey]},
        sk \in 0..1, n \in 0..1}
NoQueryArgs ==
    [hasKeys |-> FALSE, Keys |-> <<>>, KeysStr |-> <<>>, Filter |-> NilFilter,
     Skip |-> 0, Count |-> 0]
NoResult ==
    [panic |-> FALSE, err |-> "nil", items |-> <<>>, keys |-> <<>>, next |-> 0, reads |-> 0]

\* A Query that reports no error when neither keys nor a filter are given.
QueryOf_NoQueryOk(q) ==
    IF q.hasKeys /\ q.Filter # NilFilter THEN [NoResult EXCEPT !.panic = TRUE, !.err = "panic"]
    ELSE LET allKeys == q.Keys \o q.KeysStr
         IN IF q.hasKeys \/ Len(q.KeysStr) > 0
            THEN LET items == queryKeys(allKeys)
                 IN [NoResult EXCEPT !.items = items,
                                     !.keys = [i \in 1..Len(items) |-> allKeys[i]],
                                     !.reads = 1]
            ELSE IF q.Filter # NilFilter
            THEN LET r == queryFind([filter |-> q.Filter, skip |-> q.Skip, count |-> q.Count])
                 IN [NoResult EXCEPT !.err = r.err, !.items = r.docs, !.keys = r.keys,
                                     !.next = r.last, !.reads = 1]
            ELSE NoResult

\* Collection.Query: the panic test on Keys and Filter, the KeysStr appended
\* to Keys, then the key lookup, the filter scan, or the error. reads counts
\* the transactions opened on the store.
QueryOf(q) ==
    IF q.hasKeys /\ q.Filter # NilFilter THEN [NoResult EXCEPT !.panic = TRUE, !.err = "panic"]
    ELSE LET allKeys == q.Keys \o q.KeysStr
         IN IF q.hasKeys \/ Len(q.KeysStr) > 0
            THEN LET items == queryKeys(allKeys)
                 IN [NoResult EXCEPT !.items = items,
                                     !.keys = [i \in 1..Len(items) |-> allKeys[i]],
                                     !.reads = 1]
            ELSE IF q.Filter # NilFilter
            THEN LET r == queryFind([filter |-> q.Filter, skip |-> q.Skip, count |-> q.Count])
                 IN [NoResult EXCEPT !.err = r.err, !.items = r.docs, !.keys = r.keys,
                                     !.next = r.last, !.reads = 1]
            ELSE [NoResult EXCEPT !.err = "NoQueryProvided"]

\* QueryResult.Any and QueryResult.JSONResponse, on a result with its Items
\* and its Last.
Any(qr) == Len(qr.Items) > 0

JSONResponseOf(qr) ==
    IF ~Any(qr) THEN [result |-> <<>>, count |-> 0, next |-> 0]
    ELSE [result |-> qr.Items, count |-> Len(qr.Items), next |-> qr.Last]

\* ------------------------------------------------ the query result chain
\* A QueryResult as the receiver of a chained call: its Items and its Error.
\* The callbacks explored for ForEach: "failB" returns an error for a
\* document named "b", "mod" renames the document to "b" and returns nil.
EachModes == {"failB", "mod"}
ValidateModes == {"nil", "ValidateError"}

\* A loop that goes on after an error and reports the first one.
RECURSIVE forEachFrom_NoStop(_, _, _, _)
forEachFrom_NoStop(mode, items, i, acc) ==
    IF i > Len(items) THEN acc
    ELSE LET r == RunHook(mode, "each", i, items[i])
         IN forEachFrom_NoStop(mode, items, i + 1,
               [Items |-> [acc.Items EXCEPT ![i] = r.doc],
                Error |-> IF acc.Error # "nil" THEN acc.Error
                          ELSE IF r.err = "nil" THEN "nil" ELSE "CallbackError",
                invoked |-> acc.invoked + 1])

\* The loop of ForEach from item i: it stops at the first error.
RECURSIVE forEachFrom(_, _, _, _)
forEachFrom(mode, items, i, acc) ==
    IF i > Len(items) \/ acc.Error # "nil" THEN acc
    ELSE LET r == RunHook(mode, "each", i, items[i])
         IN forEachFrom(mode, items, i + 1,
               [Items |-> [acc.Items EXCEPT ![i] = r.doc],
                Error |-> IF r.err = "nil" THEN "nil" ELSE "CallbackError",
                invoked |-> acc.invoked + 1])

\* A ForEach without the test of qr.Error: the error of the callback, when
\* there is one, replaces the error of the result.
ForEachOf_NoGuard(qr, mode) ==
    LET r == forEachFrom(mode, qr.Items, 1,
                 [Items |-> qr.Items, Error |-> "nil", invoked |-> 0])
    IN IF r.Error = "nil" THEN [r EXCEPT !.Error = qr.Error] ELSE r

\* QueryResult.ForEach
ForEachOf(qr, mode) ==
    IF qr.Error # "nil" THEN [Items |-> qr.Items, Error |-> qr.Error, invoked |-> 0]
    ELSE forEachFrom(mode, qr.Items, 1,
             [Items |-> qr.Items, Error |-> "nil", invoked |-> 0])

\* QueryResult.Filter
FilterOf(qr, f) ==
    IF qr.Error # "nil" THEN [Items |-> qr.Items, Error |-> qr.Error, invoked |-> 0]
    ELSE [Items |-> SelectSeq(qr.Items, LAMBDA d : Matches(f, d)),
          Error |-> "nil", invoked |-> Len(qr.Items)]

\* QueryResult.Validate, with a function that returns v
ValidateOf(qr, v) ==
    IF qr.Error # "nil" THEN [Items |-> qr.Items, Error |-> qr.Error, invoked |-> 0]
    ELSE [Items |-> qr.Items, Error |-> v, invoked |-> 1]

\* QueryResult.Delete and QueryResult.Update on a result with its Error
ResultDeleteOf(c, qr) ==
    IF qr.Error # "nil" THEN [db |-> db, err |-> qr.Error, trace |-> <<>>]
    ELSE QRDeleteOf(c, qr.Items)

ResultUpdateOf(c, qr) ==
    IF qr.Error # "nil" THEN [db |-> db, err |-> qr.Error, trace |-> <<>>]
    ELSE QRUpdateOf(c, qr.Items)

\* ------------------------------------------------------------- the drop
\* The permission gate of Drop: DriverConfiguration.DeleteNoVerify and the
\* value of the environment variable BINGO_ALLOW_DROP_<NAME>: not set, the
\* string "true", or another string ("TRUE").
DropGates == [DeleteNoVerify : BOOLEAN, env : {"unset", "true", "TRUE"}]
\* A gate that is always open.
DropAllowed_Always(g) == TRUE

DropAllowed(g) == g.DeleteNoVerify \/ g.env = "true"
\* A drop that clears the metadata flag and leaves the bucket.
DropOf_KeepBucket(g) ==
    IF ~DropAllowed(g) THEN [db |-> db, err |-> "DropNotPermitted", panic |-> FALSE]
    ELSE [db |-> [db EXCEPT !.registered = FALSE],
          err |-> IF db.exists THEN "nil" ELSE "BucketNotFound", panic |-> FALSE]

\* Collection.Drop: removeCollection commits the metadata flag in its own
\* transaction and its error is discarded; tx.DeleteBucket then removes
\* the bucket or fails when there is none. On a closed driver the
\* CollectionFrom inside removeCollection panics.
DropOf(g) ==
    IF ~DropAllowed(g) THEN [db |-> db, err |-> "DropNotPermitted", panic |-> FALSE]
    ELSE IF db.closed THEN [db |-> db, err |-> "panic", panic |-> TRUE]
    ELSE LET m == [db EXCEPT !.registered = FALSE]
         IN IF ~db.exists THEN [db |-> m, err |-> "BucketNotFound", panic |-> FALSE]
            ELSE [db |-> [m EXCEPT !.exists = FALSE, !.recs = EmptyRecs],
                  err |-> "nil", panic |-> FALSE]

\* ------------------------------------------------------- the transactions
\* A write transaction in flight (db.tx): the call that opened it, its
\* arguments, and the number of documents its function has worked through.
NoTx == [kind |-> "none"]
TxKinds == {"InsertMany", "QRDelete"}
TxBatches == UNION {[1..n -> {d \in Docs : d.ID # NoKey}] : n \in 1..MaxBatch}
TxOpen(s) == s.tx.kind # "none"
\* The loop of the transaction's function after t.done documents.
TxAcc(t) ==
    IF t.kind = "InsertMany"
    THEN insertsFrom(NoHooks, SubSeq(t.docs, 1, t.done), t.opt,
             [j \in 1..t.done |-> NoKey], 1,
             [recs |-> db.recs, results |-> <<>>, err |-> "nil",
              trace |-> <<>>, errs |-> <<>>])
    ELSE qrDeleteFrom(NoHooks, SubSeq(t.docs, 1, t.done), 1, IterStart)
\* The call the transaction belongs to, run to its end.
TxResult(t) ==
    IF t.kind = "InsertMany"
    THEN inserts(NoHooks, t.docs, t.opt, [j \in 1..Len(t.docs) |-> NoKey]).db
    ELSE QRDeleteOf(NoHooks, t.docs).db

\* A read transaction that sees the writes of the transaction in flight.
ViewSnapshot_Dirty(s) ==
    IF TxOpen(s) THEN [exists |-> TRUE, recs |-> TxAcc(s.tx).recs]
    ELSE [exists |-> s.exists, recs |-> s.recs]

\* db.View: the read transaction sees the store as committed when it began.
ViewSnapshot(s) == [exists |-> s.exists, recs |-> s.recs]
\* The queries of the concurrent reads: every document or the documents
\* of one name, no skip, no limit.
TxQueries ==
    {q \in Queries : q.skip = 0 /\ q.count = 0 /\ q.filter.kind \in {"all", "name"}}

\* ----------------------------------------------------------- the registry
\* The store of a driver with several collections:
\*   buckets |-> the names of the buckets that exist,
\*   meta    |-> the records of the metadata bucket, key -> value,
\*   events  |-> for each name, the most recent of CollectionFrom and a
\*               successful Drop (history),
\*   clean   |-> no Drop has failed after its gate and the metadata
\*               collection has not been dropped (history).
CollNames == {"a", "b"}
METADATA_COLLECTION_NAME == "__metadata"
FIELDS_COLLECTION_NAME == "__fields:"
CollectionKey(name) == <<"collection:", name>>
NoMeta == [k \in {} |-> TRUE]
\* FieldsOf a TestDocument
TypeFields == <<"ID;id", "Name;name">>

\* WriteMetadata: an upsert into the metadata collection, which creates
\* its bucket when there is none.
WriteMetadata(s, k, v) ==
    [s EXCEPT !.buckets = @ \cup {METADATA_COLLECTION_NAME},
              !.meta = [x \in DOMAIN @ \cup {k} |-> IF x = k THEN v ELSE @[x]]]
addCollection(s, name) == WriteMetadata(s, CollectionKey(name), TRUE)
removeCollection(s, name) == WriteMetadata(s, CollectionKey(name), FALSE)

CollectionFromOf(s, name) ==
    IF name = METADATA_COLLECTION_NAME THEN s
    ELSE WriteMetadata(addCollection(s, name), <<FIELDS_COLLECTION_NAME, name>>, TypeFields)

\* GetCollections: Find on the metadata collection with the filter
\* HasPrefix(K, "collection:") && V, then the prefix trimmed off each key.
\* Find reports a missing bucket and an empty match as errors.
GetCollectionsOf(s) ==
    IF METADATA_COLLECTION_NAME \notin s.buckets
    THEN [names |-> {}, err |-> "BucketNotFound"]
    ELSE LET found == {k \in DOMAIN s.meta : k[1] = "collection:" /\ s.meta[k]}
         IN IF found = {} THEN [names |-> {}, err |-> "ErrDocumentNotFound"]
            ELSE [names |-> {k[2] : k \in found}, err |-> "nil"]

\* Collection.Drop of the collection called name.
DropNamedOf(s, name, g) ==
    IF ~DropAllowed(g) THEN [db |-> s, err |-> "DropNotPermitted"]
    ELSE LET m == removeCollection(s, name)
         IN IF name \notin m.buckets
            THEN [db |-> [m EXCEPT !.clean = FALSE], err |-> "BucketNotFound"]
            ELSE IF name = METADATA_COLLECTION_NAME
            THEN [db |-> [m EXCEPT !.buckets = @ \ {name}, !.meta = NoMeta,
                                   !.clean = FALSE],
                  err |-> "nil"]
            ELSE [db |-> [m EXCEPT !.buckets = @ \ {name}, !.events[name] = "Drop"],
                  err |-> "nil"]

\* ------------------------------------------------------------- the calls
NoQuery == [filter |-> [kind |-> "none", name |-> "", id |-> NoKey], skip |-> 0, count |-> 0]
NoLast ==
    [op |-> "init", c |-> NoHooks, docs |-> <<>>,
     opt |-> [IgnoreErrors |-> FALSE, Upsert |-> FALSE], q |-> NoQuery,
     err |-> "nil", ids |-> <<>>, errs |-> <<>>, trace |-> <<>>,
     pre |-> [exists |-> FALSE, recs |-> EmptyRecs, registered |-> TRUE, closed |-> FALSE],
     items |-> <<>>, keys |-> <<>>, next |-> 0, visited |-> <<>>,
     acc |-> <<>>, calls |-> 0, k |-> 0,
     gate |-> [DeleteNoVerify |-> FALSE, env |-> "unset"],
     qa |-> NoQueryArgs, panic |-> FALSE, reads |-> 0,
     qr |-> [Items |-> <<>>, Error |-> "nil"], invoked |-> 0,
     name |-> "", names |-> {}, snap |-> <<>>, fn |-> "",
     resp |-> [result |-> <<>>, count |-> 0, next |-> 0]]

\* Insert / InsertMany
InsertMany ==
    /\ last.op = "init"
    /\ \E docs \in Batches, opt \in InsertOptions, c \in InsertReceivers :
      \E gens \in GensOf(docs) :
        LET r == inserts(c, docs, opt, gens)
        IN /\ db' = r.db
           /\ last' = [NoLast EXCEPT !.op = "InsertMany", !.c = c, !.docs = docs,
                          !.opt = opt, !.err = r.err, !.ids = r.results,
                          !.errs = r.errs, !.trace = r.trace, !.pre = db]

\* Insert / InsertMany on a collection with OnNewId set
InsertNewId ==
    /\ last.op = "init"
    /\ \E docs \in Batches, opt \in InsertOptions, c \in InsertReceivers :
      \E gens \in NewIdsOf(docs) :
        LET r == inserts(c, docs, opt, gens)
        IN /\ db' = r.db
           /\ last' = [NoLast EXCEPT !.op = "InsertNewId", !.c = c, !.docs = docs,
                          !.opt = opt, !.err = r.err, !.ids = r.results,
                          !.errs = r.errs, !.trace = r.trace, !.keys = gens,
                          !.pre = db]

\* Find / FindWithKeys
Find ==
    /\ last.op = "init"
    /\ \E q \in Queries :
        LET r == FindWithKeys(q)
        IN /\ last' = [NoLast EXCEPT !.op = "Find", !.q = q, !.err = r.err,
                          !.items = r.docs, !.keys = r.keys, !.pre = db]
           /\ UNCHANGED db

\* Query with a Filter
Query ==
    /\ last.op = "init"
    /\ \E q \in Queries :
        LET r == queryFind(q)
        IN /\ last' = [NoLast EXCEPT !.op = "Query", !.q = q, !.err = r.err,
                          !.items = r.docs, !.keys = r.keys, !.next = r.last,
                          !.pre = db]
           /\ UNCHANGED db

\* UpdateOne
UpdateOne ==
    /\ last.op = "init"
    /\ \E doc \in ValidDocs, c \in UpdateReceivers :
        LET r == UpdateOneOf(c, doc)
        IN /\ db' = r.db
           /\ last' = [NoLast EXCEPT !.op = "UpdateOne", !.c = c, !.docs = <<doc>>,
                          !.err = r.err, !.trace = r.trace, !.pre = db]

\* DeleteOne
DeleteOne ==
    /\ last.op = "init"
    /\ \E doc \in ValidDocs, c \in DeleteReceivers :
        LET r == DeleteOneOf(c, doc)
        IN /\ db' = r.db
           /\ last' = [NoLast EXCEPT !.op = "DeleteOne", !.c = c, !.docs = <<doc>>,
                          !.err = r.err, !.trace = r.trace, !.pre = db]

\* DeleteIter
DeleteIter ==
    /\ last.op = "init"
    /\ \E f \in Filters, c \in DeleteReceivers :
        LET r == DeleteIterOf(c, f)
        IN /\ db' = r.db
           /\ last' = [NoLast EXCEPT !.op = "DeleteIter", !.c = c,
                          !.q = [NoQuery EXCEPT !.filter = f],
                          !.err = r.err, !.trace = r.trace,
                          !.visited = r.visited, !.pre = db]

\* UpdateIter
UpdateIter ==
    /\ last.op = "init"
    /\ \E u \in UpdateFuncs, c \in UpdateReceivers :
        LET r == UpdateIterOf(c, u)
        IN /\ db' = r.db
           /\ last' = [NoLast EXCEPT !.op = "UpdateIter", !.c = c,
                          !.q = [NoQuery EXCEPT !.filter = u.filter],
                          !.docs = <<[ID |-> NoKey, Name |-> u.name]>>,
                          !.err = r.err, !.trace = r.trace,
                          !.visited = r.visited, !.pre = db]

\* UpdateIter with an update function that sets the identity field
UpdateIterRekey ==
    /\ last.op = "init"
    /\ \E u \in RekeyFuncs, c \in RekeyReceivers, view \in CursorViews :
        LET r == UpdateIterRekeyOf(c, u, view)
        IN /\ db' = r.db
           /\ last' = [NoLast EXCEPT !.op = "UpdateIterRekey", !.c = c,
                          !.q = [NoQuery EXCEPT !.filter = u.filter],
                          !.docs = <<[ID |-> u.id, Name |-> u.name]>>,
                          !.err = r.err, !.trace = r.trace,
                          !.visited = r.visited, !.pre = db]

\* QueryResult.Delete
QRDelete ==
    /\ last.op = "init"
    /\ \E items \in ItemLists, c \in DeleteReceivers :
        LET r == QRDeleteOf(c, items)
        IN /\ db' = r.db
           /\ last' = [NoLast EXCEPT !.op = "QRDelete", !.c = c, !.docs = items,
                          !.err = r.err, !.trace = r.trace, !.pre = db]

\* QueryResult.Update
QRUpdate ==
    /\ last.op = "init"
    /\ \E items \in ItemLists, c \in UpdateReceivers :
        LET r == QRUpdateOf(c, items)
        IN /\ db' = r.db
           /\ last' = [NoLast EXCEPT !.op = "QRUpdate", !.c = c, !.docs = items,
                          !.err = r.err, !.trace = r.trace, !.pre = db]

\* FindByKey / FindByBytesKey
FindByKey ==
    /\ last.op = "init"
    /\ \E id \in Keys \cup {NoKey} :
        LET r == FindByBytesKey(id)
        IN /\ last' = [NoLast EXCEPT !.op = "FindByKey", !.k = id, !.err = r.err,
                          !.items = IF r.err = "nil" THEN <<r.doc>> ELSE <<>>,
                          !.pre = db]
           /\ UNCHANGED db

\* The paging loop of the README: a query with Skip k and Count n, then
\* queries whose Skip is the Next of the page before, up to an empty page.
PageStart ==
    /\ last.op = "init"
    /\ \E q \in {x \in Queries : x.count > 0} :
        LET r == queryFind(q)
        IN /\ last' = [NoLast EXCEPT !.op = "Page", !.q = q, !.k = q.skip,
                          !.err = r.err, !.items = r.docs, !.keys = r.keys,
                          !.next = r.last, !.acc = r.docs, !.calls = 1, !.pre = db]
           /\ UNCHANGED db

PageNext ==
    /\ last.op = "Page"
    /\ last.items # <<>>
    /\ LET q == [last.q EXCEPT !.skip = last.next]
           r == queryFind(q)
       IN /\ last' = [last EXCEPT !.q = q, !.err = r.err, !.items = r.docs,
                         !.keys = r.keys, !.next = r.last,
                         !.acc = last.acc \o r.docs, !.calls = last.calls + 1]
          /\ UNCHANGED db

\* Collection.Drop
Drop ==
    /\ last.op = "init"
    /\ \E g \in DropGates :
        LET r == DropOf(g)
        IN /\ db' = r.db
           /\ last' = [NoLast EXCEPT !.op = "Drop", !.gate = g, !.err = r.err,
                          !.panic = r.panic, !.pre = db]

\* CollectionFrom on the same name: it panics on a closed driver, and
\* otherwise addCollection sets the metadata flag.
CollectionFrom ==
    /\ last.op = "init"
    /\ db' = IF db.closed THEN db ELSE [db EXCEPT !.registered = TRUE]
    /\ last' = [NoLast EXCEPT !.op = "CollectionFrom", !.pre = db,
                   !.panic = db.closed,
                   !.err = IF db.closed THEN "panic" ELSE "nil"]

\* Driver.Close: sets Driver.Closed and closes the store.
Close ==
    /\ last.op = "init"
    /\ db' = [db EXCEPT !.closed = TRUE]
    /\ last' = [NoLast EXCEPT !.op = "Close", !.pre = db]

\* CollectionFrom[T](driver, name)
CollectionFromNamed ==
    /\ last.op = "init"
    /\ \E name \in CollNames \cup {METADATA_COLLECTION_NAME} :
        /\ db' = IF name \in CollNames
                 THEN [CollectionFromOf(db, name) EXCEPT !.events[name] = "CollectionFrom"]
                 ELSE CollectionFromOf(db, name)
        /\ last' = [NoLast EXCEPT !.op = "CollectionFromNamed", !.name = name]

\* An insert through a collection that CollectionFrom returned: the write
\* transaction creates the bucket.
InsertInto ==
    /\ last.op = "init"
    /\ \E name \in CollNames :
        /\ db.events[name] # "none"
        /\ db' = [db EXCEPT !.buckets = @ \cup {name}]
        /\ last' = [NoLast EXCEPT !.op = "InsertInto", !.name = name]

\* Drop through a collection that CollectionFrom returned
DropNamed ==
    /\ last.op = "init"
    /\ \E name \in CollNames \cup {METADATA_COLLECTION_NAME}, g \in DropGates :
        /\ name \in CollNames => db.events[name] # "none"
        /\ LET r == DropNamedOf(db, name, g)
           IN /\ db' = r.db
              /\ last' = [NoLast EXCEPT !.op = "DropNamed", !.name = name,
                             !.gate = g, !.err = r.err]

\* Driver.GetCollections
GetCollections ==
    /\ last.op = "init"
    /\ LET r == GetCollectionsOf(db)
       IN last' = [NoLast EXCEPT !.op = "GetCollections", !.err = r.err,
                      !.names = r.names]
    /\ UNCHANGED db

\* db.Update begins in InsertMany or QueryResult.Delete: the store admits
\* one write transaction at a time.
UpdateBegin ==
    /\ ~TxOpen(db)
    /\ \E kind \in TxKinds :
         \/ /\ kind = "InsertMany"
            /\ \E docs \in TxBatches, opt \in InsertOptions :
                 db' = [db EXCEPT !.tx = [kind |-> kind, docs |-> docs, opt |-> opt,
                                          done |-> 0]]
         \/ /\ kind = "QRDelete"
            /\ db.exists
            /\ \E items \in ItemLists :
                 db' = [db EXCEPT !.tx = [kind |-> kind, docs |-> items,
                                          opt |-> [IgnoreErrors |-> FALSE, Upsert |-> FALSE],
                                          done |-> 0]]
    /\ UNCHANGED last

\* The transaction's function works through its next document.
UpdateStep ==
    /\ TxOpen(db)
    /\ db.tx.done < Len(db.tx.docs)
    /\ TxAcc(db.tx).err = "nil"
    /\ db' = [db EXCEPT !.tx.done = @ + 1]
    /\ UNCHANGED last

\* The function returns: db.Update commits or rolls back.
UpdateEnd ==
    /\ TxOpen(db)
    /\ db.tx.done = Len(db.tx.docs) \/ TxAcc(db.tx).err # "nil"
    /\ db' = [TxResult(db.tx) EXCEPT !.tx = NoTx]
    /\ UNCHANGED last

\* Two callers call Insert, with no option, each with a valid document of
\* its own under the same non-empty key, which is not stored. last.acc holds
\* for each caller its document, how far its call is, and what it returned.
Callers == {1, 2}
NoOptions == [IgnoreErrors |-> FALSE, Upsert |-> FALSE]
RaceCall ==
    /\ last.op = "init"
    /\ ~TxOpen(db)
    /\ \E k \in Keys \ DOMAIN db.recs, n \in [Callers -> ValidNames] :
         last' = [NoLast EXCEPT !.op = "Race", !.k = k,
                     !.acc = [i \in Callers |->
                                 [doc |-> [ID |-> k, Name |-> n[i]], pc |-> "called",
                                  id |-> NoKey, err |-> "nil"]]]
    /\ UNCHANGED db

\* A caller's db.Update begins: the store admits one write transaction at
\* a time, the other caller waits.
RaceBegin ==
    /\ last.op = "Race"
    /\ ~TxOpen(db)
    /\ \E i \in Callers :
         /\ last.acc[i].pc = "called"
         /\ db' = [db EXCEPT !.tx = [kind |-> "InsertMany", docs |-> <<last.acc[i].doc>>,
                                     opt |-> NoOptions, done |-> 0]]
         /\ last' = [last EXCEPT !.acc[i].pc = "in"]

\* The caller's db.Update commits or rolls back and its Insert returns.
RaceEnd ==
    /\ last.op = "Race"
    /\ TxOpen(db)
    /\ db.tx.done = Len(db.tx.docs) \/ TxAcc(db.tx).err # "nil"
    /\ \E i \in Callers :
         /\ last.acc[i].pc = "in"
         /\ LET r == inserts(NoHooks, db.tx.docs, db.tx.opt, <<NoKey>>)
            IN /\ db' = [r.db EXCEPT !.tx = NoTx]
               /\ last' = [last EXCEPT !.acc[i].pc = "done",
                              !.acc[i].err = r.err,
                              !.acc[i].id = IF r.err = "nil" THEN r.results[1] ELSE NoKey]

\* Both calls have returned.
RaceReturn ==
    /\ last.op = "Race"
    /\ \A i \in Callers : last.acc[i].pc = "done"
    /\ last' = NoLast
    /\ UNCHANGED db

\* db.View begins in queryFind
ViewBegin ==
    /\ last.op = "init"
    /\ \E q \in TxQueries :
         last' = [NoLast EXCEPT !.op = "ViewBegin", !.q = q,
                     !.pre = [exists |-> db.exists, recs |-> db.recs],
                     !.snap = ViewSnapshot(db)]
    /\ UNCHANGED db

\* The scan of queryFind inside its read transaction, and its return.
ViewEnd ==
    /\ last.op = "ViewBegin"
    /\ LET r == queryFindIn(last.snap, last.q)
       IN last' = [last EXCEPT !.op = "ViewEnd", !.err = r.err, !.items = r.docs,
                      !.keys = r.keys, !.next = r.last]
    /\ UNCHANGED db

\* Query with any combination of Keys, KeysStr and Filter
QueryWith ==
    /\ last.op = "init"
    /\ \E q \in QueryArgs :
        LET r == QueryOf(q)
        IN /\ last' = [NoLast EXCEPT !.op = "QueryWith", !.qa = q, !.err = r.err,
                          !.panic = r.panic, !.items = r.items, !.keys = r.keys,
                          !.next = r.next, !.reads = r.reads, !.pre = db]
           /\ UNCHANGED db

\* FindByKeys / FindByBytesKeys
FindByKeys ==
    /\ last.op = "init"
    /\ \E keys \in KeyLists :
        /\ last' = [NoLast EXCEPT !.op = "FindByKeys",
                       !.qa = [NoQueryArgs EXCEPT !.hasKeys = TRUE, !.Keys = keys],
                       !.items = queryKeys(keys), !.reads = 1, !.pre = db]
        /\ UNCHANGED db

\* The calls chained on the QueryResult that Query returned.
ChainOps == {"QueryWith", "ForEach", "Filter", "Validate"}
Receiver == [Items |-> last.items, Error |-> last.err]

\* QueryResult.ForEach
ForEach ==
    /\ last.op \in ChainOps /\ ~last.panic
    /\ \E mode \in EachModes :
        LET r == ForEachOf(Receiver, mode)
        IN /\ last' = [NoLast EXCEPT !.op = "ForEach", !.qr = Receiver, !.fn = mode,
                          !.items = r.Items, !.err = r.Error,
                          !.invoked = r.invoked, !.pre = db]
           /\ UNCHANGED db

\* QueryResult.Filter
FilterItems ==
    /\ last.op \in ChainOps /\ ~last.panic
    /\ \E f \in Filters :
        LET r == FilterOf(Receiver, f)
        IN /\ last' = [NoLast EXCEPT !.op = "Filter", !.qr = Receiver,
                          !.q = [NoQuery EXCEPT !.filter = f],
                          !.items = r.Items, !.err = r.Error,
                          !.invoked = r.invoked, !.pre = db]
           /\ UNCHANGED db

\* QueryResult.Validate
ValidateResult ==
    /\ last.op \in ChainOps /\ ~last.panic
    /\ \E v \in ValidateModes :
        LET r == ValidateOf(Receiver, v)
        IN /\ last' = [NoLast EXCEPT !.op = "Validate", !.qr = Receiver,
                          !.items = r.Items, !.err = r.Error,
                          !.invoked = r.invoked, !.pre = db]
           /\ UNCHANGED db

\* QueryResult.Delete at the end of a chain
ResultDelete ==
    /\ last.op \in ChainOps /\ ~last.panic
    /\ \E c \in DeleteReceivers :
        LET r == ResultDeleteOf(c, Receiver)
        IN /\ db' = r.db
           /\ last' = [NoLast EXCEPT !.op = "ResultDelete", !.c = c, !.qr = Receiver,
                          !.docs = last.items, !.err = r.err, !.trace = r.trace,
                          !.pre = db]

\* QueryResult.Update at the end of a chain
ResultUpdate ==
    /\ last.op \in ChainOps /\ ~last.panic
    /\ \E c \in UpdateReceivers :
        LET r == ResultUpdateOf(c, Receiver)
        IN /\ db' = r.db
           /\ last' = [NoLast EXCEPT !.op = "ResultUpdate", !.c = c, !.qr = Receiver,
                          !.docs = last.items, !.err = r.err, !.trace = r.trace,
                          !.k = last.k, !.calls = last.calls, !.pre = db]

\* Another caller's UpdateOne or DeleteOne that commits between a Query and
\* the call chained on its result: the QueryResult keeps the items it read.
\* last.k is the key the other caller wrote, last.calls counts the call.
OtherUpdateOne ==
    /\ last.op = "QueryWith" /\ ~last.panic /\ last.calls = 0
    /\ \E doc \in {d \in ValidDocs : d.ID # NoKey}, c \in UpdateReceivers :
        LET r == UpdateOneOf(c, doc)
        IN /\ r.db # db
           /\ db' = r.db
           /\ last' = [last EXCEPT !.k = Key(doc), !.calls = 1]

OtherDeleteOne ==
    /\ last.op = "QueryWith" /\ ~last.panic /\ last.calls = 0
    /\ \E doc \in {d \in ValidDocs : d.ID # NoKey}, c \in DeleteReceivers :
        LET r == DeleteOneOf(c, doc)
        IN /\ r.db # db
           /\ db' = r.db
           /\ last' = [last EXCEPT !.k = Key(doc), !.calls = 1]

\* The call returns to its caller: the next call starts from the store alone.
Return ==
    /\ last.op # "init"
    /\ last' = NoLast
    /\ UNCHANGED db

Init ==
    /\ db = [exists |-> FALSE, recs |-> EmptyRecs, registered |-> TRUE, closed |-> FALSE]
    /\ last = NoLast

Next ==
    \/ InsertMany
    \/ UpdateOne
    \/ DeleteOne
    \/ UpdateIter
    \/ DeleteIter
    \/ QRUpdate
    \/ QRDelete
    \/ FindByKey
    \/ Find
    \/ Query
    \/ Return

Spec == Init /\ [][Next]_vars
\* The scans and the traversals on every bucket of up to ScanKeys records
\* that inserts can build.
ScanBuckets ==
    UNION {[S -> ValidNames] : S \in SUBSET (1..ScanKeys)}
RecsOf(names) == [k \in DOMAIN names |-> Marshal([ID |-> k, Name |-> names[k]])]

InitScan ==
    /\ \E names \in ScanBuckets : db = [exists |-> TRUE, recs |-> RecsOf(names), registered |-> TRUE, closed |-> FALSE]
    /\ last = NoLast

NextScan ==
    \/ Find
    \/ Query
    \/ PageStart
    \/ PageNext
    \/ DeleteIter
    \/ UpdateIter
    \/ Return

SpecScan == InitScan /\ [][NextScan]_vars
\* UpdateIter with update functions that set the identity field, on every
\* bucket of up to RekeyKeys records that inserts can build.
InitRekey ==
    /\ \E names \in UNION {[S -> ValidNames] : S \in SUBSET (1..RekeyKeys)} :
          db = [exists |-> TRUE, recs |-> RecsOf(names), registered |-> TRUE, closed |-> FALSE]
    /\ last = NoLast

NextRekey ==
    \/ UpdateIterRekey
    \/ FindByKey
    \/ Return

SpecRekey == InitRekey /\ [][NextRekey]_vars
\* The collection with Drop and CollectionFrom.
NextDrop ==
    \/ InsertMany
    \/ Drop
    \/ CollectionFrom
    \/ Find
    \/ Query
    \/ Return

SpecDrop == Init /\ [][NextDrop]_vars
\* The collection of a driver that may be closed at any point.
NextClosed ==
    \/ Close
    \/ InsertMany
    \/ Find
    \/ FindByKey
    \/ FindByKeys
    \/ QueryWith
    \/ UpdateOne
    \/ DeleteOne
    \/ UpdateIter
    \/ DeleteIter
    \/ Drop
    \/ CollectionFrom
    \/ Return

SpecClosed == Init /\ [][NextClosed]_vars
\* The inserts of a collection whose keys come from OnNewId.
NextNewId ==
    \/ InsertNewId
    \/ FindByKey
    \/ Return

SpecNewId == Init /\ [][NextNewId]_vars
\* The collection from before its first insert, with Drop and every call
\* that opens the bucket.
NextBucket ==
    \/ InsertMany
    \/ Drop
    \/ UpdateOne
    \/ DeleteOne
    \/ UpdateIter
    \/ DeleteIter
    \/ QRUpdate
    \/ QRDelete
    \/ Find
    \/ Query
    \/ Return

SpecBucket == Init /\ [][NextBucket]_vars
\* A writer and a reader of one collection, each inside its transaction.
InitTx ==
    /\ db = [exists |-> FALSE, recs |-> EmptyRecs, registered |-> TRUE,
             closed |-> FALSE, tx |-> NoTx]
    /\ last = NoLast

NextTx ==
    \/ UpdateBegin
    \/ UpdateStep
    \/ UpdateEnd
    \/ ViewBegin
    \/ ViewEnd
    \/ Return

SpecTx == InitTx /\ [][NextTx]_vars
\* Two callers that insert the same key at the same time, on every bucket
\* that inserts can build.
NextRace ==
    \/ InsertMany
    \/ Return
    \/ RaceCall
    \/ RaceBegin
    \/ UpdateStep
    \/ RaceEnd
    \/ RaceReturn

SpecRace == InitTx /\ [][NextRace]_vars
\* The registry of a new driver and the calls that change or read it.
InitRegistry ==
    /\ db = [buckets |-> {}, meta |-> NoMeta,
             events |-> [n \in CollNames |-> "none"], clean |-> TRUE]
    /\ last = NoLast

NextRegistry ==
    \/ CollectionFromNamed
    \/ InsertInto
    \/ DropNamed
    \/ GetCollections
    \/ Return

SpecRegistry == InitRegistry /\ [][NextRegistry]_vars
\* The reads on every bucket of up to DecodeKeys records, some of which may
\* hold a value that does not decode.
StoredValues == {Marshal(d) : d \in {x \in ValidDocs : x.ID # NoKey}} \cup {BadValue}
InitQuery ==
    /\ \E S \in SUBSET (1..DecodeKeys) :
         \E vals \in [S -> ValidNames \cup {"bad"}] :
            db = [exists |-> TRUE,
                  recs |-> [k \in S |-> IF vals[k] = "bad" THEN BadValue
                                        ELSE Marshal([ID |-> k, Name |-> vals[k]])],
                  registered |-> TRUE, closed |-> FALSE]
    /\ last = NoLast

NextQuery ==
    \/ QueryWith
    \/ FindByKeys
    \/ FindByKey
    \/ Find
    \/ Query
    \/ Return

SpecQuery == InitQuery /\ [][NextQuery]_vars
\* Query and the calls chained on its result.
NextResult ==
    \/ QueryWith
    \/ ForEach
    \/ FilterItems
    \/ ValidateResult
    \/ ResultDelete
    \/ ResultUpdate
    \/ Return

SpecResult == InitQuery /\ [][NextResult]_vars
\* QueryResult.JSONResponse on the result a Query returned
JSONResponse ==
    /\ last.op = "QueryWith" /\ ~last.panic
    /\ last' = [last EXCEPT !.op = "JSONResponse",
                   !.resp = JSONResponseOf([Items |-> last.items, Last |-> last.next])]
    /\ UNCHANGED db

\* A Query and the response built from its result.
NextJSON ==
    \/ QueryWith
    \/ JSONResponse
    \/ Return

SpecJSON == InitQuery /\ [][NextJSON]_vars
\* A Query, another caller's write, then QueryResult.Update.
NextStale ==
    \/ QueryWith
    \/ OtherUpdateOne
    \/ OtherDeleteOne
    \/ ResultUpdate
    \/ Return

SpecStale == InitQuery /\ [][NextStale]_vars
\* ================================================================ claims
IsInsert == last.op = "InsertMany"
\* Insert(document, opts...): a batch of one document.
IsInsertOne == IsInsert /\ Len(last.docs) = 1
StoredBefore(k) == last.pre.exists /\ k \in DOMAIN last.pre.recs
AllHooksOk == \A p \in 1..Len(last.trace) : last.trace[p].ok
\* The document as beforeInsert leaves it.
AsBeforeInsert(doc) == RunHook(last.c.beforeInsert, "before", 1, doc).doc

\* C1 (as stated): Insert without Upsert of a document whose non-empty key
\* is already stored fails with ErrDocumentExists and leaves the record
\* unchanged.
C1_Original ==
    (/\ IsInsertOne
     /\ ~last.opt.Upsert
     /\ last.docs[1].ID # NoKey
     /\ StoredBefore(last.docs[1].ID))
    => (last.err = "ErrDocumentExists" /\ db = last.pre)

\* C1 (amended): Insert without Upsert of a document whose non-empty key is
\* already stored never changes the record: insertWithTx rejects it with
\* ErrDocumentExists, which Insert returns unless IgnoreErrors is set; with
\* IgnoreErrors Insert returns a nil id and a nil error.
C1_InsertExisting ==
    (/\ IsInsertOne
     /\ ~last.opt.Upsert
     /\ last.docs[1].ID # NoKey
     /\ StoredBefore(last.docs[1].ID))
    => /\ last.errs = <<"ErrDocumentExists">>
       /\ db = last.pre
       /\ last.trace = <<>>
       /\ ~last.opt.IgnoreErrors => (last.err = "ErrDocumentExists" /\ last.ids = <<>>)
       /\ last.opt.IgnoreErrors => (last.err = "nil" /\ last.ids = <<NoKey>>)

C1_Witness ==
    /\ IsInsertOne
    /\ ~last.opt.Upsert
    /\ ~last.opt.IgnoreErrors
    /\ last.docs[1].ID # NoKey
    /\ StoredBefore(last.docs[1].ID)
    /\ Unmarshal(last.pre.recs[last.docs[1].ID]).Name # last.docs[1].Name
    /\ last.err = "ErrDocumentExists"

C3_NoOverwrite ==
    (IsInsert /\ ~last.opt.Upsert)
    => \A i \in 1..Len(last.errs) :
          (/\ last.docs[i].ID # NoKey
           /\ \/ StoredBefore(last.docs[i].ID)
              \/ \E j \in 1..(i - 1) :
                    last.errs[j] = "nil" /\ last.ids[j] = last.docs[i].ID)
          => last.errs[i] = "ErrDocumentExists"

\* C4: for a successful Insert the returned id is the key the document is
\* stored under (the caller's key, or a generated one for an empty key), and
\* a lookup by that id returns the document as persisted, whose ID is the id.
C4_RoundTrip ==
    (IsInsertOne /\ last.err = "nil" /\ last.errs = <<"nil">>)
    => /\ Len(last.ids) = 1
       /\ last.ids[1] # NoKey
       /\ last.docs[1].ID # NoKey => last.ids[1] = last.docs[1].ID
       /\ db.exists /\ last.ids[1] \in DOMAIN db.recs
       /\ FindByBytesKey(last.ids[1]) =
             [doc |-> [AsBeforeInsert(last.docs[1]) EXCEPT !.ID = last.ids[1]],
              err |-> "nil"]

C4_Witness ==
    /\ IsInsertOne
    /\ last.err = "nil" /\ last.errs = <<"nil">>
    /\ last.docs[1].ID = NoKey
    /\ last.pre.exists /\ DOMAIN last.pre.recs # {}
    /\ FindByBytesKey(last.ids[1]).doc.ID = last.ids[1]
\* The records of a bucket in descending key order.
RECURSIVE DescKeys(_)
DescKeys(S) == IF S = {} THEN <<>> ELSE <<SetMax(S)>> \o DescKeys(S \ {SetMax(S)})
DropFirst(seq, n) == IF n >= Len(seq) THEN <<>> ELSE SubSeq(seq, n + 1, Len(seq))
Take(seq, n) == IF n >= Len(seq) THEN seq ELSE SubSeq(seq, 1, n)
DocAt(recs, k) == Unmarshal(recs[k])
\* The keys a scan with q selects: descending order, the first q.skip
\* records dropped, the matching ones kept, cut to q.count when positive.
SelectedKeys(q, recs) ==
    LET hit(k) == Matches(q.filter, DocAt(recs, k))
        kept == SelectSeq(DropFirst(DescKeys(DOMAIN recs), q.skip), hit)
    IN IF q.count > 0 THEN Take(kept, q.count) ELSE kept
DocsAt(recs, keys) == [i \in 1..Len(keys) |-> DocAt(recs, keys[i])]
\* The position of key k in the descending traversal.
PositionOf(recs, k) == Cardinality({x \in DOMAIN recs : x >= k})

\* C5: a filter scan with skip s and count c returns the records in
\* descending key order, without the first s records visited, restricted to
\* those satisfying the predicate, cut to the first c when c > 0; stopping
\* at the count limit is a success.
C5_ScanResult ==
    /\ (last.op = "Query" /\ db.exists)
       => /\ last.err = "nil"
          /\ last.keys = SelectedKeys(last.q, db.recs)
          /\ last.items = DocsAt(db.recs, last.keys)
    /\ (last.op = "Find" /\ db.exists /\ SelectedKeys(last.q, db.recs) # <<>>)
       => /\ last.err = "nil"
          /\ last.keys = SelectedKeys(last.q, db.recs)
          /\ last.items = DocsAt(db.recs, last.keys)

\* A scan stopped by its count limit, after skipped and non-matching records,
\* before the end of the bucket.
C5_Witness ==
    /\ last.op = "Query"
    /\ last.q.skip > 0 /\ last.q.count > 0
    /\ Len(last.items) = last.q.count
    /\ last.err = "nil"
    /\ last.next > last.q.skip + last.q.count
    /\ last.next < Cardinality(DOMAIN db.recs)

\* C6: the cursor a filter scan returns is the number of records visited:
\* the position of the c-th match when the count limit c > 0 stops the scan,
\* the bucket size when the scan runs to the end, 0 for an empty bucket.
C6_Cursor ==
    (last.op = "Query" /\ db.exists)
    => LET sel == SelectedKeys([last.q EXCEPT !.count = 0], db.recs)
           c == last.q.count
       IN /\ (c > 0 /\ Len(sel) >= c) => last.next = PositionOf(db.recs, sel[c])
          /\ (c <= 0 \/ Len(sel) < c) => last.next = Cardinality(DOMAIN db.recs)
          /\ DOMAIN db.recs = {} => last.next = 0

\* The cursor is larger than the number of documents skipped and matched.
C6_Witness ==
    /\ last.op = "Query"
    /\ last.q.count > 0
    /\ Len(last.items) = last.q.count
    /\ last.next > last.q.skip + Len(last.items)
    /\ last.next < Cardinality(DOMAIN db.recs)

\* C7: the pages of the paging loop (Skip k, Count n, then Skip = the cursor
\* of the page before) are, put together, a prefix of the result of the
\* unbounded query with Skip k, and the whole of it once a page is empty;
\* the loop reaches the empty page within (bucket size + 1) calls.
C7_Pagination ==
    (last.op = "Page" /\ db.exists)
    => LET all == DocsAt(db.recs,
                    SelectedKeys([filter |-> last.q.filter, skip |-> last.k, count |-> 0],
                                 db.recs))
       IN /\ last.err = "nil"
          /\ Len(last.acc) <= Len(all)
          /\ last.acc = Take(all, Len(last.acc))
          /\ last.items = <<>> => last.acc = all
          /\ last.calls <= Cardinality(DOMAIN db.recs) + 1
          /\ last.items # <<>> => last.calls <= Len(last.acc)

\* Three pages, the last one empty, with records in between that do not match.
C7_Witness ==
    /\ last.op = "Page"
    /\ last.calls = 3
    /\ last.items = <<>>
    /\ Len(last.acc) = 2
    /\ last.k > 0
    /\ last.k + Len(last.acc) < Cardinality(DOMAIN db.recs)
\* The documents stored in a bucket.
StoredDocs(recs) == {DocAt(recs, k) : k \in DOMAIN recs}
\* The predicates that d, and no other stored document, satisfied before the call.
OnlyMatched(d) ==
    {f \in Filters : {x \in StoredDocs(last.pre.recs) : Matches(f, x)} = {d}}
AsQuery(f) == [filter |-> f, skip |-> 0, count |-> 0]

\* C8 (as stated): after a successful DeleteOne(d) every lookup for d fails
\* with an error IsErrDocumentNotFound recognises, and a lookup that finds
\* no document always reports ErrDocumentNotFound.
C8_Original ==
    /\ (last.op = "DeleteOne" /\ last.err = "nil")
       => /\ IsErrDocumentNotFound(FindByBytesKey(last.docs[1].ID).err)
          /\ \A f \in OnlyMatched(last.docs[1]) :
                /\ IsErrDocumentNotFound(FindOneWithKey(f).err)
                /\ IsErrDocumentNotFound(FindWithKeys(AsQuery(f)).err)
    /\ (last.op \in {"Find", "FindByKey"} /\ last.items = <<>>)
       => IsErrDocumentNotFound(last.err)

\* C8 (amended): after a successful DeleteOne(d) every lookup for d fails
\* with an error IsErrDocumentNotFound recognises; a lookup that finds no
\* document never succeeds with an empty result: FindByKey reports
\* ErrDocumentNotFound, Find reports it when the bucket exists and a
\* bucket-not-found error when it does not.
C8_DeletedNotFound ==
    /\ (last.op = "DeleteOne" /\ last.err = "nil")
       => /\ IsErrDocumentNotFound(FindByBytesKey(last.docs[1].ID).err)
          /\ \A f \in OnlyMatched(last.docs[1]) :
                /\ IsErrDocumentNotFound(FindOneWithKey(f).err)
                /\ IsErrDocumentNotFound(FindWithKeys(AsQuery(f)).err)
    /\ (last.op = "FindByKey" /\ last.items = <<>>)
       => IsErrDocumentNotFound(last.err)
    /\ (last.op = "Find" /\ last.items = <<>>)
       => IF db.exists THEN IsErrDocumentNotFound(last.err)
          ELSE last.err = "BucketNotFound"

\* A stored document, found by its key and by two predicates, was deleted
\* while another document stays in the bucket.
C8_Witness ==
    /\ last.op = "DeleteOne" /\ last.err = "nil"
    /\ last.docs[1] \in StoredDocs(last.pre.recs)
    /\ Cardinality(OnlyMatched(last.docs[1])) >= 2
    /\ DOMAIN db.recs # {}
    /\ FindByBytesKey(last.docs[1].ID).err = "ErrDocumentNotFound"

MutationOps ==
    {"InsertMany", "UpdateOne", "DeleteOne", "UpdateIter", "DeleteIter",
     "QRUpdate", "QRDelete"}
BeforeHookOf(op, c) ==
    CASE op = "InsertMany" -> c.beforeInsert
      [] op \in {"UpdateOne", "UpdateIter", "QRUpdate"} -> c.beforeUpdate
      [] op \in {"DeleteOne", "DeleteIter", "QRDelete"} -> c.beforeDelete
AfterHookOf(op, c) ==
    CASE op = "InsertMany" -> c.afterInsert
      [] op \in {"UpdateOne", "UpdateIter", "QRUpdate"} -> c.afterUpdate
      [] op \in {"DeleteOne", "DeleteIter", "QRDelete"} -> c.afterDelete

\* C9: on every mutation path, for each document the registered before-hook
\* runs first, then the write or delete of that document, then the
\* registered after-hook; after a before-hook error neither the write nor
\* the after-hook of that document happens.
C9_HookOrder ==
    last.op \in MutationOps
    => LET t == last.trace
           before == BeforeHookOf(last.op, last.c)
           after == AfterHookOf(last.op, last.c)
       IN \A p \in 1..Len(t) :
            /\ (t[p].ev = "write" /\ before # "none")
               => p > 1 /\ t[p - 1] = [ev |-> "before", i |-> t[p].i, ok |-> TRUE]
            /\ (t[p].ev = "write" /\ after # "none")
               => p < Len(t) /\ t[p + 1].ev = "after" /\ t[p + 1].i = t[p].i
            /\ t[p].ev = "after"
               => p > 1 /\ t[p - 1] = [ev |-> "write", i |-> t[p].i, ok |-> TRUE]
            /\ (t[p].ev = "before" /\ ~t[p].ok)
               => \A r \in (p + 1)..Len(t) : t[r].i # t[p].i
            /\ (t[p].ev = "before" /\ t[p].ok /\ p < Len(t))
               => (t[p + 1].i = t[p].i => t[p + 1].ev = "write")
            /\ \A r \in 1..Len(t) : (t[r].ev = t[p].ev /\ t[r].i = t[p].i) => r = p

\* A batch insert with IgnoreErrors in which beforeInsert fails for the first
\* document and the second document runs through before, write and after.
C9_Witness ==
    /\ last.op = "InsertMany"
    /\ last.opt.IgnoreErrors
    /\ Len(last.trace) = 4
    /\ last.trace[1] = [ev |-> "before", i |-> 1, ok |-> FALSE]
    /\ last.trace[2] = [ev |-> "before", i |-> 2, ok |-> TRUE]
    /\ last.trace[3] = [ev |-> "write", i |-> 2, ok |-> TRUE]
    /\ last.trace[4].ev = "after"
    /\ last.docs[1].ID \notin DOMAIN db.recs

\* C10: after a successful DeleteIter(f) the bucket holds exactly the
\* records for which f returned false, unchanged; every record was visited
\* once, in descending key order; a scan with f then returns nothing.
C10_DeleteIter ==
    (last.op = "DeleteIter" /\ last.err = "nil")
    => LET old == last.pre.recs
           kept == {k \in DOMAIN old : ~Matches(last.q.filter, DocAt(old, k))}
       IN /\ db.recs = [k \in kept |-> old[k]]
          /\ last.visited = DescKeys(DOMAIN old)
          /\ queryFind(AsQuery(last.q.filter)).docs = <<>>

\* Records above, between and below deleted ones are kept.
C10_Witness ==
    /\ last.op = "DeleteIter" /\ last.err = "nil"
    /\ Cardinality(DOMAIN last.pre.recs) = ScanKeys
    /\ Cardinality(DOMAIN db.recs) = 2
    /\ SetMax(DOMAIN last.pre.recs) \notin DOMAIN db.recs
    /\ Len(last.visited) = ScanKeys
    /\ last.c.beforeDelete # "none" /\ last.c.afterDelete # "none"
\* The replacement UpdateIter's function returns for the record at k: the
\* document renamed, with the identity it was given when the function sets one.
ReplacementOf(old, k) ==
    IF last.docs[1].ID = NoKey THEN [DocAt(old, k) EXCEPT !.Name = last.docs[1].Name]
    ELSE last.docs[1]
AsBeforeUpdate(doc) == RunHook(last.c.beforeUpdate, "before", 1, doc).doc

\* C11: after a successful UpdateIter(fn) every record for which fn returned
\* a replacement holds that replacement (as beforeUpdate left it), every
\* record for which fn returned nil is unchanged and fired no hook, the
\* bucket has as many records as before, and every record that was in the
\* bucket was visited exactly once.
C11_UpdateIter ==
    (last.op \in {"UpdateIter", "UpdateIterRekey"} /\ last.err = "nil")
    => LET old == last.pre.recs
           hit(k) == Matches(last.q.filter, DocAt(old, k))
       IN /\ \A k \in DOMAIN old :
                /\ k \in DOMAIN db.recs
                /\ hit(k) => DocAt(db.recs, k) = AsBeforeUpdate(ReplacementOf(old, k))
                /\ ~hit(k) => db.recs[k] = old[k]
          /\ \A p \in 1..Len(last.trace) :
                /\ last.trace[p].i <= Len(last.visited)
                /\ last.visited[last.trace[p].i] \in DOMAIN old
                /\ hit(last.visited[last.trace[p].i])
          /\ Cardinality(DOMAIN db.recs) = Cardinality(DOMAIN old)
          /\ last.visited = DescKeys(DOMAIN old)
\* C12: Drop without permission (DeleteNoVerify false and the environment
\* flag not exactly "true") returns an error and leaves the bucket, its
\* documents and the metadata flag as they were.
C12_DropDenied ==
    (last.op = "Drop" /\ ~last.gate.DeleteNoVerify /\ last.gate.env # "true")
    => (last.err # "nil" /\ db = last.pre)

\* A refused drop of a bucket with documents, the flag set to "TRUE".
C12_Witness ==
    /\ last.op = "Drop"
    /\ ~last.gate.DeleteNoVerify /\ last.gate.env = "TRUE"
    /\ last.err = "DropNotPermitted"
    /\ db.exists /\ DOMAIN db.recs # {} /\ db.registered

\* C13: with the gate open (DeleteNoVerify, or the environment flag equal to
\* "true"), Drop of a collection whose bucket exists removes the bucket with
\* all its documents, and every filter scan then fails with bucket-not-found.
C13_DropRemoves ==
    (/\ last.op = "Drop"
     /\ last.gate.DeleteNoVerify \/ last.gate.env = "true"
     /\ last.pre.exists)
    => /\ last.err = "nil"
       /\ ~db.exists
       /\ db.recs = EmptyRecs
       /\ \A q \in Queries :
             /\ queryFind(q).err = "BucketNotFound"
             /\ FindWithKeys(q).err = "BucketNotFound"
       /\ \A f \in Filters : FindOneWithKey(f).err = "BucketNotFound"

\* A bucket with documents dropped through the environment flag alone.
C13_Witness ==
    /\ last.op = "Drop"
    /\ ~last.gate.DeleteNoVerify /\ last.gate.env = "true"
    /\ last.pre.exists /\ DOMAIN last.pre.recs # {}
    /\ last.err = "nil"
    /\ ~db.exists
\* The query supplies a key list, through Keys or through KeysStr.
SuppliesKeys(q) == q.hasKeys \/ Len(q.KeysStr) > 0

\* C14: Query panics whenever the query supplies both a key list, through
\* Keys or through KeysStr, and a Filter.
C14_PanicOnBoth ==
    (last.op = "QueryWith" /\ SuppliesKeys(last.qa) /\ last.qa.Filter # NilFilter)
    => last.panic

\* C15: Query with neither a key list nor a Filter returns, without a panic
\* and without a transaction on the store, a result with an error and no items.
C15_NoQuery ==
    (last.op = "QueryWith" /\ ~SuppliesKeys(last.qa) /\ last.qa.Filter = NilFilter)
    => /\ ~last.panic
       /\ last.err # "nil"
       /\ last.items = <<>> /\ last.keys = <<>>
       /\ last.reads = 0

\* An empty query on a bucket that holds documents.
C15_Witness ==
    /\ last.op = "QueryWith"
    /\ ~last.qa.hasKeys /\ last.qa.KeysStr = <<>> /\ last.qa.Filter = NilFilter
    /\ last.err = "NoQueryProvided"
    /\ \E k \in DOMAIN db.recs : Decodable(db.recs[k])
\* C16: once the Error of a QueryResult is set, ForEach, Filter and Validate
\* do not call their function and leave Items and Error as they are, and
\* Update and Delete return that error, run no hook and leave the store alone.
C16_ShortCircuit ==
    /\ (last.op \in {"ForEach", "Filter", "Validate"} /\ last.qr.Error # "nil")
       => /\ last.invoked = 0
          /\ last.items = last.qr.Items
          /\ last.err = last.qr.Error
    /\ (last.op \in {"ResultDelete", "ResultUpdate"} /\ last.qr.Error # "nil")
       => /\ last.err = last.qr.Error
          /\ last.trace = <<>>
          /\ db = last.pre

\* A result with items and an error, on a collection with hooks that would
\* run, handed to Update.
C16_Witness ==
    /\ last.op = "ResultUpdate"
    /\ last.qr.Error = "CallbackError"
    /\ last.qr.Items # <<>>
    /\ last.c.beforeUpdate = "mod"
    /\ last.err = "CallbackError"
\* The requested keys of a key lookup, Keys before KeysStr.
RequestedKeys == last.qa.Keys \o last.qa.KeysStr
\* The key k holds a value that decodes.
Stored(k) == db.exists /\ k \in DOMAIN db.recs /\ Decodable(db.recs[k])
IsKeyQuery == last.op = "QueryWith" /\ ~last.panic /\ SuppliesKeys(last.qa)
IsFilterQuery ==
    last.op = "QueryWith" /\ ~last.panic /\ ~SuppliesKeys(last.qa) /\ last.qa.Filter # NilFilter

\* C17: in every QueryResult that Query returns, by key list or by filter,
\* Keys and Items have the same length and Keys[i] is the key under which
\* Items[i] is stored, also when requested keys are missing; FindOneWithKey
\* returns the key of the document it returns.
C17_KeysParallel ==
    /\ (IsKeyQuery \/ IsFilterQuery)
       => /\ Len(last.keys) = Len(last.items)
          /\ \A i \in 1..Len(last.items) :
                Stored(last.keys[i]) /\ DocAt(db.recs, last.keys[i]) = last.items[i]
    /\ (last.op = "init" /\ db.exists /\ \A k \in DOMAIN db.recs : Decodable(db.recs[k]))
       => \A f \in Filters :
             LET r == FindOneWithKey(f)
             IN r.err = "nil" => (Stored(r.key) /\ DocAt(db.recs, r.key) = r.doc)

\* C18: a key lookup (FindByKeys, FindByBytesKeys, Query with a key list)
\* returns the documents stored under the requested keys that exist, in the
\* order of the request, leaves out the missing keys and reports no error.
C18_KeyLookup ==
    (last.op = "FindByKeys" \/ IsKeyQuery)
    => LET found == SelectSeq(RequestedKeys, Stored)
       IN /\ last.err = "nil"
          /\ last.items = [i \in 1..Len(found) |-> DocAt(db.recs, found[i])]

\* A request of a missing key followed by a stored key, and one of two
\* stored keys in ascending order, the reverse of the traversal order.
C18_Witness ==
    /\ IsKeyQuery
    /\ Len(RequestedKeys) = 2
    /\ ~Stored(RequestedKeys[1]) /\ Stored(RequestedKeys[2])
    /\ Len(last.items) = 1
    /\ last.items[1].ID = RequestedKeys[2]

\* The records in descending key order, and the positions of those that do
\* not decode.
DescRecs == DescKeys(DOMAIN db.recs)
BadPositions == {p \in 1..Len(DescRecs) : ~Decodable(db.recs[DescRecs[p]])}
\* The scan with skip s and count c arrives at position p and decodes it:
\* p is past the skip, every record between the skip and p decodes, and
\* fewer than c of them match.
ScanReaches(f, s, c, p) ==
    /\ p > s
    /\ \A b \in BadPositions : b > s => b >= p
    /\ c > 0 => Cardinality({i \in (s + 1)..(p - 1) :
                                Matches(f, DocAt(db.recs, DescRecs[i]))}) < c

\* C19: a stored value that does not decode is left out by the key lookup,
\* without an error, and makes a filter scan that reaches it fail with the
\* decode error.
C19_Undecodable ==
    /\ (last.op \in {"FindByKeys", "FindByKey"} \/ IsKeyQuery)
       => /\ last.err \in {"nil", "ErrDocumentNotFound"}
          /\ \A i \in 1..Len(last.items) : Stored(last.items[i].ID)
          /\ last.op = "FindByKey" => (last.err = "nil" <=> Stored(last.k))
          /\ last.op # "FindByKey" =>
                Len(last.items) = Len(SelectSeq(RequestedKeys, Stored))
    /\ (last.op = "Query" /\ db.exists)
       => \A p \in BadPositions :
             ScanReaches(last.q.filter, last.q.skip, last.q.count, p)
             => (last.err = "DecodeError" /\ last.next = p)
    /\ (last.op = "Find" /\ db.exists)
       => \A p \in BadPositions :
             ScanReaches(last.q.filter, last.q.skip, last.q.count, p)
             => (last.err = "DecodeError" /\ last.items = <<>>)

\* A scan that returned a document, then met a record that does not decode
\* with a record that decodes below it.
C19_Witness ==
    /\ last.op = "Query"
    /\ last.err = "DecodeError"
    /\ Len(last.items) = 1
    /\ last.next = 2
    /\ Cardinality(DOMAIN db.recs) = 3
    /\ Decodable(db.recs[DescRecs[3]])
\* C20: Insert with IgnoreErrors and without Upsert of a document whose key
\* is already stored returns a nil id and a nil error, and the document
\* stored under that key is the one that was there.
C20_IgnoreExisting ==
    (/\ IsInsertOne
     /\ last.opt.IgnoreErrors /\ ~last.opt.Upsert
     /\ last.docs[1].ID # NoKey
     /\ StoredBefore(last.docs[1].ID))
    => /\ last.err = "nil"
       /\ last.ids = <<NoKey>>
       /\ db = last.pre
       /\ FindByBytesKey(last.docs[1].ID) =
             [doc |-> DocAt(last.pre.recs, last.docs[1].ID), err |-> "nil"]

\* The document offered differs from the stored one and would pass
\* validation and the hooks.
C20_Witness ==
    /\ IsInsertOne
    /\ last.opt.IgnoreErrors /\ ~last.opt.Upsert
    /\ StoredBefore(last.docs[1].ID)
    /\ last.docs[1].Name = "a"
    /\ DocAt(last.pre.recs, last.docs[1].ID).Name = "b"
    /\ last.err = "nil" /\ last.ids = <<NoKey>>
\* C21: InsertMany without IgnoreErrors is all-or-nothing: when a document
\* of the batch fails the call returns that error and the store is as it was
\* before the call; when none fails the call returns one id per document, in
\* the order of the batch, each the key its document is stored under.
C21_AllOrNothing ==
    (IsInsert /\ ~last.opt.IgnoreErrors)
    => /\ last.err # "nil" <=> (\E i \in 1..Len(last.errs) : last.errs[i] # "nil")
       /\ last.err # "nil" => db = last.pre
       /\ last.err = "nil" =>
             /\ Len(last.ids) = Len(last.docs)
             /\ \A i \in 1..Len(last.docs) :
                   /\ last.ids[i] # NoKey
                   /\ last.docs[i].ID # NoKey => last.ids[i] = last.docs[i].ID
                   /\ db.exists /\ last.ids[i] \in DOMAIN db.recs
                   /\ DocAt(db.recs, last.ids[i]).ID = last.ids[i]

\* The first document of the batch was written and its hooks ran, the second
\* failed, and the first is not in the store.
C21_Witness ==
    /\ IsInsert /\ ~last.opt.IgnoreErrors
    /\ Len(last.docs) = 2
    /\ last.errs = <<"nil", "ValidationFailed">>
    /\ last.err = "ValidationFailed"
    /\ last.docs[1].ID # NoKey
    /\ last.docs[1].ID \notin DOMAIN db.recs
    /\ Len(last.trace) >= 2
\* The document at position i of the batch was put in the bucket by the
\* call (with IgnoreErrors the transaction always commits).
WrittenAt(i) == \E n \in 1..Len(last.trace) : last.trace[n] = WriteEvent(i)

\* C22: InsertMany with IgnoreErrors returns no error and one entry per
\* document of the batch, in order, and an entry is nil exactly when its
\* document was not persisted by the call.
C22_NilIffNotPersisted ==
    (IsInsert /\ last.opt.IgnoreErrors)
    => /\ last.err = "nil"
       /\ Len(last.ids) = Len(last.docs)
       /\ \A i \in 1..Len(last.docs) :
             (last.ids[i] = NoKey) <=> ~WrittenAt(i)
\* The positions of the items the call wrote, in the order it wrote them.
RECURSIVE WrittenPositions(_)
WrittenPositions(trace) ==
    IF trace = <<>> THEN <<>>
    ELSE IF trace[1].ev = "write"
         THEN <<trace[1].i>> \o WrittenPositions(Tail(trace))
         ELSE WrittenPositions(Tail(trace))
IsResultWrite == last.op \in {"QRUpdate", "QRDelete"}

\* C23: QueryResult.Update and QueryResult.Delete work through Items in
\* order inside one write transaction: a call that returns nil has written
\* every item, first to last, and a call that returns an error (a hook or
\* the storage failed for some item) leaves the store exactly as it was.
C23_ResultWriteAtomic ==
    IsResultWrite
    => /\ \E n \in 0..Len(last.docs) :
             /\ WrittenPositions(last.trace) = [i \in 1..n |-> i]
             /\ last.err = "nil" => n = Len(last.docs)
       /\ last.err # "nil" => db = last.pre
       /\ last.err = "nil" =>
             \A i \in 1..Len(last.docs) :
                LET k == last.docs[i].ID
                IN IF last.op = "QRDelete" THEN k \notin DOMAIN db.recs
                   ELSE k \in DOMAIN db.recs

\* The first item was written, which would have changed the store, a later
\* step failed, and the store is unchanged.
C23_Witness ==
    /\ last.op = "QRUpdate"
    /\ Len(last.docs) = 2
    /\ last.err = "HookError"
    /\ WrittenPositions(last.trace) = <<1>>
    /\ last.pre.exists
    /\ last.docs[1].ID \in DOMAIN last.pre.recs
    /\ DocAt(last.pre.recs, last.docs[1].ID) # last.docs[1]
    /\ db = last.pre
\* The calls of a collection made after Driver.Close.
AfterClose == db.closed /\ last.op \notin {"init", "Close"}

\* C24: after Driver.Close every call of a collection fails fast with an
\* error or a panic; none reports success, an empty result or the ordinary
\* not-found outcome.
C24_ClosedFailsFast ==
    AfterClose => (last.panic \/ last.err \notin {"nil", "ErrDocumentNotFound"})
\* The collections whose most recent event is CollectionFrom.
Registered == {n \in CollNames : db.events[n] = "CollectionFrom"}

\* C25: after CollectionFrom calls and successful Drop calls, GetCollections
\* returns without error exactly the names whose most recent such event is
\* CollectionFrom, the empty set included.
C25_GetCollections ==
    (last.op = "GetCollections" /\ db.clean /\ \E n \in CollNames : db.events[n] # "none")
    => (last.err = "nil" /\ last.names = Registered)
\* The store as the write transaction in flight has it.
InFlight == [exists |-> TRUE, recs |-> TxAcc(db.tx).recs]

C27_KeyOfRecord ==
    \A k \in DOMAIN db.recs : Key(Unmarshal(db.recs[k])) = k
\* C28: the record Insert writes is the encoding of the document as
\* beforeInsert left it (with the generated key when the ID was empty), and
\* the record UpdateOne writes is the encoding of the document as
\* beforeUpdate left it.
C28_PersistsHooked ==
    /\ (IsInsertOne /\ last.err = "nil" /\ last.errs = <<"nil">>)
       => /\ last.ids[1] \in DOMAIN db.recs
          /\ db.recs[last.ids[1]] =
                Marshal([AsBeforeInsert(last.docs[1]) EXCEPT !.ID = last.ids[1]])
    /\ (last.op = "UpdateOne" /\ last.err = "nil")
       => LET doc == AsBeforeUpdate(last.docs[1])
          IN /\ Key(doc) \in DOMAIN db.recs
             /\ db.recs[Key(doc)] = Marshal(doc)

\* beforeUpdate renamed the document and UpdateOne stored the new name over
\* a record that held another one.
C28_Witness ==
    /\ last.op = "UpdateOne" /\ last.err = "nil"
    /\ last.c.beforeUpdate = "mod"
    /\ last.docs[1].Name = "a"
    /\ StoredBefore(last.docs[1].ID)
    /\ DocAt(db.recs, last.docs[1].ID).Name = "b"
    /\ DocAt(last.pre.recs, last.docs[1].ID).Name = "a"
SetMin(S) == CHOOSE x \in S : \A y \in S : x <= y

\* C29: ForEach on a result without an error applies fn to the items in
\* their order in Items; at the first item for which fn returns an error it
\* stops, fn is not applied to the items after it, and that error is the
\* result's Error; without such an item fn is applied to every item and the
\* Error stays nil.
C29_ForEachStops ==
    (last.op = "ForEach" /\ last.qr.Error = "nil")
    => LET items == last.qr.Items
           call(i) == RunHook(last.fn, "each", i, items[i])
           failing == {i \in 1..Len(items) : call(i).err # "nil"}
           n == IF failing = {} THEN Len(items) ELSE SetMin(failing)
       IN /\ last.invoked = n
          /\ last.err = IF failing = {} THEN "nil" ELSE "CallbackError"
          /\ Len(last.items) = Len(items)
          /\ \A i \in 1..Len(items) :
                last.items[i] = IF i <= n THEN call(i).doc ELSE items[i]

\* fn failed on the first of several items and was not applied to the rest.
C29_Witness ==
    /\ last.op = "ForEach" /\ last.qr.Error = "nil"
    /\ last.fn = "failB"
    /\ Len(last.qr.Items) >= 2
    /\ last.qr.Items[1].Name = "b"
    /\ last.invoked = 1
    /\ last.err = "CallbackError"
\* The document at position i of the batch does not pass validation.
Invalid(i) == last.docs[i].Name = ""
\* The existence check rejects the document at position i.
RejectedAsExisting(i) == ~last.opt.Upsert /\ StoredBefore(last.docs[i].ID)

\* C30: on insert, validation comes after the existence check and before
\* beforeInsert: a document that the existence check lets through and that
\* fails validation is rejected with the validation error, no insert hook
\* runs for it and it is not written; a document the existence check
\* rejects gets ErrDocumentExists whether it is valid or not.
C30_ValidateBeforeHooks ==
    IsInsert
    => \A i \in 1..Len(last.errs) :
          /\ (Invalid(i) /\ ~RejectedAsExisting(i))
             => /\ last.errs[i] = "ValidationFailed"
                /\ \A p \in 1..Len(last.trace) : last.trace[p].i # i
                /\ last.opt.IgnoreErrors => last.ids[i] = NoKey
                /\ ~last.opt.IgnoreErrors
                   => last.err = "ValidationFailed" /\ db = last.pre
                /\ Len(last.docs) = 1 => db.recs = last.pre.recs
          /\ RejectedAsExisting(i) => last.errs[i] = "ErrDocumentExists"

\* An invalid document that beforeInsert would have made valid is rejected
\* without a hook call, and the next document of the batch is written.
C30_Witness ==
    /\ IsInsert /\ last.opt.IgnoreErrors
    /\ Len(last.docs) = 2
    /\ Invalid(1) /\ ~RejectedAsExisting(1)
    /\ last.c.beforeInsert = "mod"
    /\ last.errs = <<"ValidationFailed", "nil">>
    /\ last.ids[1] = NoKey /\ last.ids[2] # NoKey
    /\ \A p \in 1..Len(last.trace) : last.trace[p].i = 2
IsUpdateOne == last.op = "UpdateOne"
\* Every record but the one under k is as it was before the call.
OthersUnchanged(k) ==
    /\ DOMAIN db.recs \ {k} = DOMAIN last.pre.recs \ {k}
    /\ \A x \in DOMAIN db.recs \ {k} : db.recs[x] = last.pre.recs[x]
\* UpdateOne(d) on an existing bucket with a non-empty key that is not stored.
UpdatesMissingKey ==
    /\ IsUpdateOne
    /\ last.pre.exists
    /\ last.docs[1].ID # NoKey
    /\ last.docs[1].ID \notin DOMAIN last.pre.recs

BucketOps ==
    {"UpdateOne", "DeleteOne", "UpdateIter", "DeleteIter", "QRUpdate", "QRDelete",
     "Find", "Query"}
OnMissingBucket == last.op \in BucketOps /\ ~last.pre.exists
\* UpdateOne and DeleteOne run their before hook ahead of the transaction.
BeforeHookFailed ==
    /\ last.op \in {"UpdateOne", "DeleteOne"}
    /\ last.trace = <<[ev |-> "before", i |-> 1, ok |-> FALSE]>>

\* C32 as stated: without a bucket each of these calls fails with the
\* bucket-not-found error and does not create the bucket; only inserts
\* create it.
C32_Original ==
    /\ OnMissingBucket => (last.err = "BucketNotFound" /\ db = last.pre)
    /\ (db.exists /\ ~last.pre.exists /\ last.op # "init") => last.op = "InsertMany"

\* C32 (amended): without a bucket each of these calls fails and does not
\* create the bucket; the error is bucket-not-found, except that UpdateOne
\* and DeleteOne return the error of a before hook that fails, which runs
\* ahead of the transaction. Only inserts create the bucket.
C32_NoBucket ==
    /\ OnMissingBucket
       => /\ db = last.pre
          /\ IF BeforeHookFailed THEN last.err = "HookError"
             ELSE last.err = "BucketNotFound"
    /\ (db.exists /\ ~last.pre.exists /\ last.op # "init") => last.op = "InsertMany"

\* A traversal on a collection whose bucket a Drop has removed.
C32_Witness ==
    /\ last.op = "UpdateIter"
    /\ ~last.pre.exists /\ ~last.pre.registered
    /\ last.err = "BucketNotFound"
    /\ ~db.exists
\* C33: an UpdateIter traversal writes only the keys its cursor stands on:
\* it creates and deletes no key, and a record for which the callback
\* returned nil keeps its value, also when the callback changes the
\* identity field of the document it is given.
C33_OnlyCursorKey ==
    (last.op = "UpdateIterRekey" /\ last.err = "nil")
    => /\ DOMAIN db.recs = DOMAIN last.pre.recs
       /\ \A k \in DOMAIN last.pre.recs :
             ~Matches(last.q.filter, DocAt(last.pre.recs, k))
             => db.recs[k] = last.pre.recs[k]
\* The positions, in descending key order, that a scan decodes: after the
\* skip and up to the position where the traversal ended.
DecodedPositions == {p \in 1..Len(DescRecs) : last.q.skip < p /\ p <= last.next}

\* C34: a filter scan decodes neither the records it skips nor the records
\* after the one at which it ends: it fails with the decode error exactly
\* when a record that does not decode lies after the skip and not after the
\* end of the traversal, and the traversal ends at that record, at the
\* record that filled the count limit, or at the last record.
C34_DecodeWindow ==
    (last.op = "Query" /\ db.exists)
    => /\ last.err \in {"nil", "DecodeError"}
       /\ last.err = "DecodeError" <=> (BadPositions \cap DecodedPositions # {})
       /\ last.err = "DecodeError"
          => last.next = SetMin(BadPositions \cap DecodedPositions)
       /\ last.err = "nil"
          => /\ last.items =
                   SelectSeq([i \in 1..Cardinality(DecodedPositions) |->
                                 DocAt(db.recs, DescRecs[last.q.skip + i])],
                             LAMBDA d : Matches(last.q.filter, d))
             /\ \/ last.next = Len(DescRecs)
                \/ /\ last.q.count > 0
                   /\ Len(last.items) = last.q.count
                   /\ Matches(last.q.filter, DocAt(db.recs, DescRecs[last.next]))

\* A scan that skipped a record that does not decode, returned the next
\* record and stopped at the count limit above another one that does not.
C34_Witness ==
    /\ last.op = "Query" /\ db.exists
    /\ last.q.skip = 1 /\ last.q.count = 1
    /\ BadPositions = {1, 3}
    /\ last.err = "nil"
    /\ Len(last.items) = 1
    /\ last.next = 2
\* C35: an insert without Upsert of a document with an empty key, for which
\* OnNewId returns a key that is already stored, fails with
\* ErrDocumentExists and leaves the record under that key as it was.
C35_NewIdCollision ==
    (/\ last.op = "InsertNewId"
     /\ Len(last.docs) = 1
     /\ ~last.opt.Upsert
     /\ last.docs[1].ID = NoKey
     /\ StoredBefore(last.keys[1]))
    => /\ last.errs = <<"ErrDocumentExists">>
       /\ db.recs[last.keys[1]] = last.pre.recs[last.keys[1]]
RaceDone == last.op = "Race" /\ \A i \in Callers : last.acc[i].pc = "done"

\* C36: of two concurrent Inserts without Upsert of the same non-empty key
\* that is not stored, exactly one succeeds and the other fails with
\* ErrDocumentExists, and the record under the key is the document of the
\* one that succeeded.
C36_OneInsertWins ==
    RaceDone
    => \E w \in Callers :
          /\ last.acc[w].err = "nil" /\ last.acc[w].id = last.k
          /\ \A i \in Callers \ {w} :
                last.acc[i].err = "ErrDocumentExists" /\ last.acc[i].id = NoKey
          /\ last.k \in DOMAIN db.recs
          /\ db.recs[last.k] = Marshal(last.acc[w].doc)

\* The second caller's transaction ran first and the first caller, with a
\* document of another name, was refused.
C36_Witness ==
    /\ RaceDone
    /\ last.acc[2].err = "nil"
    /\ last.acc[1].err = "ErrDocumentExists"
    /\ last.acc[1].doc.Name # last.acc[2].doc.Name
    /\ DocAt(db.recs, last.k) = last.acc[2].doc
\* The calls that run their after hooks inside the write transaction.
TxHookOps == {"InsertMany", "UpdateIter", "DeleteIter", "QRUpdate", "QRDelete"}

\* C37: when a write transaction is rolled back because a later document
\* failed, no after hook has run for the documents written before it.
C37_AfterOnlyCommitted ==
    (last.op \in TxHookOps /\ last.err # "nil")
    => \A p \in 1..Len(last.trace) :
          last.trace[p].ev = "after" => ~last.trace[p].ok
\* C38: an UpdateOne or DeleteOne that returns an error leaves the stored
\* state of the collection as it was before the call.
C38_ErrorLeavesStore ==
    (last.op \in {"UpdateOne", "DeleteOne"} /\ last.err # "nil")
    => db = last.pre
\* C39: a QueryResult.Update that follows another caller's committed write
\* leaves the key that caller wrote as that caller left it: a deleted
\* document is not re-created and a newer value is not overwritten.
C39_UpdateKeepsOthers ==
    (last.op = "ResultUpdate" /\ last.err = "nil" /\ last.calls = 1)
    => /\ last.k \in DOMAIN db.recs => last.k \in DOMAIN last.pre.recs
       /\ last.k \in DOMAIN db.recs \cap DOMAIN last.pre.recs
             => db.recs[last.k] = last.pre.recs[last.k]
\* C40: JSONResponse reports "count" equal to the number of items and
\* "next" equal to the Last of the result, the number of records the query
\* visited, also for a page in which no record matched.
C40_ResponseCursor ==
    last.op = "JSONResponse"
    => /\ last.resp.count = Len(last.items)
       /\ last.resp.next = last.next
====
